---- MODULE Spec2Model ----
(***************************************************************************)
(* Model of the Auto Curing Worklist Helper (Streamlit pages under         *)
(* src/src/pages and src/src/utils/header_alignment.py).                   *)
(*                                                                         *)
(* A DataFrame is [columns |-> set of column names, rows |-> sequence of   *)
(* functions from the column names to cells].  An account key is a         *)
(* sequence of characters, so that str.strip() is computed and not         *)
(* assumed.  A date cell is a tagged record: NA (NaN / None / NaT),        *)
(* Txt(s) (a string that is no date) or a date with the text format it is  *)
(* written in ("mdy" for %m/%d/%Y, "iso" for %Y-%m-%d).                     *)
(***************************************************************************)
EXTENDS Integers, Sequences, FiniteSets, TLC

VARIABLES
    page,           \* the page of the app the session is on
    uploaded,       \* the page's st.file_uploader widgets: a function from widget key to file
    session_state,  \* st.session_state: a function from the keys present to their values
    today,          \* datetime.today() of the session's runs
    screen          \* what the last script run of the page rendered and offered for download

vars == <<page, uploaded, session_state, today, screen>>

----------------------------------------------------------------------------
(* Bounds of the model *)

MaxTadRows == 2
MaxMasterRows == 2

----------------------------------------------------------------------------
(* Cells *)

NA == [k |-> "na"]
Txt(s) == [k |-> "txt", s |-> s]
Date(y, m, d) == [k |-> "date", y |-> y, m |-> m, d |-> d, fmt |-> "mdy"]
IsoDate(y, m, d) == [k |-> "date", y |-> y, m |-> m, d |-> d, fmt |-> "iso"]
EmptyStr == Txt("")
\* An account key cell: the characters of the string
Key(chars) == [k |-> "key", chars |-> chars]
\* A numeric cell; float is TRUE when the column's dtype is float64 (prints as "31.0")
Num(v, float) == [k |-> "num", v |-> v, float |-> float]

IsDate(c) == c.k = "date"

\* pd.notna(v)
notna(c) == c # NA

\* pd.Series.isna / fillna test
isna(c) == c = NA

\* datetime.strftime("%m/%d/%Y") of a parsed date
strftime_mdy(c) == [c EXCEPT !.fmt = "mdy"]

\* datetime.strftime("%Y-%m-%d") of a parsed date
strftime_iso(c) == [c EXCEPT !.fmt = "iso"]

----------------------------------------------------------------------------
(* Account keys: str.strip() on a sequence of characters *)

RECURSIVE lstrip(_)
lstrip(s) == IF s # <<>> /\ Head(s) = " " THEN lstrip(Tail(s)) ELSE s

RECURSIVE rstrip(_)
rstrip(s) ==
    IF s # <<>> /\ s[Len(s)] = " " THEN rstrip(SubSeq(s, 1, Len(s) - 1)) ELSE s

\* str.strip()
strip(s) == rstrip(lstrip(s))

\* One cell of df["LAN"].astype(str).str.strip()
strip_key(c) == IF c.k = "key" THEN Key(strip(c.chars)) ELSE c

----------------------------------------------------------------------------
(* Generic DataFrame helpers *)

DataFrame(cols, rows) == [columns |-> cols, rows |-> rows]

Range(s) == {s[i] : i \in 1..Len(s)}

\* All sequences over S of length at most n
SeqUpTo(S, n) == UNION {[1..k -> S] : k \in 0..n}

\* df["LAN"] = df["LAN"].astype(str).str.strip()
strip_LAN(df) ==
    [df EXCEPT !.rows = [i \in 1..Len(df.rows) |->
                            [df.rows[i] EXCEPT !["LAN"] = strip_key(@)]]]

\* df.drop_duplicates(subset=["LAN"], keep="last")
drop_duplicates_keep_last(df) ==
    LET keep == {i \in 1..Len(df.rows) :
                    \A j \in (i + 1)..Len(df.rows) : df.rows[j]["LAN"] # df.rows[i]["LAN"]}
        RECURSIVE pick(_)
        pick(i) == IF i > Len(df.rows) THEN <<>>
                   ELSE IF i \in keep THEN <<df.rows[i]>> \o pick(i + 1)
                        ELSE pick(i + 1)
    IN [df EXCEPT !.rows = pick(1)]

\* The load step every keyed uploader of the weekly and daily pages applies
load_keyed(df) ==
    IF "LAN" \in df.columns THEN drop_duplicates_keep_last(strip_LAN(df)) ELSE df

\* df.columns.str.strip().str.upper() on the column names the model uses
upper_name(n) ==
    CASE n = "Oldest_Due_date" -> "OLDEST_DUE_DATE"
      [] n = " lan" -> "LAN"
      [] n = "ch code" -> "CH CODE"
      [] n = "Date Referred" -> "DATE REFERRED"
      [] OTHER -> n

\* df.columns = df.columns.str.strip().str.upper()
normalize_columns(df) ==
    LET cols == {upper_name(c) : c \in df.columns}
        orig(n) == CHOOSE c \in df.columns : upper_name(c) = n
    IN [columns |-> cols,
        rows |-> [i \in 1..Len(df.rows) |-> [c \in cols |-> df.rows[i][orig(c)]]]]

\* An uploaded file: its name and the table a reader returns for it
File(name, df) == [name |-> name, df |-> df]

\* st.session_state[key] = value
Put(f, key, value) == [x \in DOMAIN f \cup {key} |-> IF x = key THEN value ELSE f[x]]

----------------------------------------------------------------------------
(* Calendar arithmetic, as pandas computes it *)

IsLeap(y) == (y % 4 = 0 /\ y % 100 # 0) \/ y % 400 = 0

DaysInMonth(y, m) ==
    IF m = 2 THEN (IF IsLeap(y) THEN 29 ELSE 28)
    ELSE IF m \in {4, 6, 9, 11} THEN 30 ELSE 31

Min(a, b) == IF a <= b THEN a ELSE b

\* ts + pandas.DateOffset(months=1): next month, the day clamped to the month's length
DateOffset_months_1(c) ==
    LET ny == IF c.m = 12 THEN c.y + 1 ELSE c.y
        nm == IF c.m = 12 THEN 1 ELSE c.m + 1
    IN [c EXCEPT !.y = ny, !.m = nm, !.d = Min(c.d, DaysInMonth(ny, nm))]

\* a <= b on parsed dates
DateLE(a, b) ==
    \/ a.y < b.y
    \/ a.y = b.y /\ a.m < b.m
    \/ a.y = b.y /\ a.m = b.m /\ a.d <= b.d

\* pd.to_datetime(cell, errors="coerce"): a date is parsed, anything else is NaT
to_datetime_coerce(c) == IF IsDate(c) THEN c ELSE NA


----------------------------------------------------------------------------
(* DataFrame operations used by the pages *)

\* row.get(col): the cell, NaN when the column is absent
Get(row, col) == IF col \in DOMAIN row THEN row[col] ELSE NA

\* df[col] = F(row) for every row (adds the column or overwrites it)
with_column(df, col, F(_)) ==
    LET cols == df.columns \cup {col}
    IN DataFrame(cols,
                 [i \in 1..Len(df.rows) |->
                     [c \in cols |-> IF c = col THEN F(df.rows[i]) ELSE df.rows[i][c]]])

\* for col in cols: if col not in df.columns: df[col] = fill
ensure_columns_with(df, cols, fill) ==
    DataFrame(df.columns \cup cols,
              [i \in 1..Len(df.rows) |->
                  [c \in df.columns \cup cols |->
                      IF c \in df.columns THEN df.rows[i][c] ELSE fill]])

\* df[cols] for a set of columns all present in df
project(df, cols) ==
    DataFrame(cols, [i \in 1..Len(df.rows) |-> [c \in cols |-> df.rows[i][c]]])

\* df[mask]
filter_rows(df, Keep(_)) == [df EXCEPT !.rows = SelectSeq(df.rows, Keep)]

\* df.rename(columns={old: new})
rename_column(df, old, new) ==
    IF old \notin df.columns THEN df
    ELSE LET cols == (df.columns \ {old}) \cup {new}
         IN DataFrame(cols,
                      [i \in 1..Len(df.rows) |->
                          [c \in cols |-> IF c = new THEN df.rows[i][old] ELSE df.rows[i][c]]])

\* pd.merge(left, right, on="LAN", how="left", suffixes=("", sfx)): one output row per
\* matching right row, one row of NaN right cells when no right row matches
merge_left(left, right, sfx) ==
    LET rcols == right.columns \ {"LAN"}
        rname(c) == IF c \in left.columns THEN c \o sfx ELSE c
        rnames == {rname(c) : c \in rcols}
        orig(n) == CHOOSE c \in rcols : rname(c) = n
        joined(l, r) == [c \in left.columns \cup rnames |->
                            IF c \in left.columns THEN l[c] ELSE r[orig(c)]]
        alone(l) == [c \in left.columns \cup rnames |->
                            IF c \in left.columns THEN l[c] ELSE NA]
        matches(l) == SelectSeq(right.rows, LAMBDA r : r["LAN"] = l["LAN"])
        expand(l) == IF matches(l) = <<>> THEN <<alone(l)>>
                     ELSE [j \in 1..Len(matches(l)) |-> joined(l, matches(l)[j])]
        RECURSIVE all(_)
        all(i) == IF i > Len(left.rows) THEN <<>> ELSE expand(left.rows[i]) \o all(i + 1)
    IN DataFrame(left.columns \cup rnames, all(1))

\* pd.concat([a, b], ignore_index=True): the union of the columns, NaN where a frame
\* lacks a column
concat(a, b) ==
    LET cols == a.columns \cup b.columns
        widen(r) == [c \in cols |-> Get(r, c)]
    IN DataFrame(cols, [i \in 1..Len(a.rows) |-> widen(a.rows[i])]
                       \o [i \in 1..Len(b.rows) |-> widen(b.rows[i])])

\* The format pd.to_datetime(series) settles on: the one of the first value that is
\* neither null nor an empty string when that value is a date string, and element-wise
\* parsing ("any") when it is not
infer_format(df, col) ==
    LET idx == {i \in 1..Len(df.rows) :
                   df.rows[i][col] # NA /\ df.rows[i][col] # EmptyStr}
    IN IF idx = {} THEN "any"
       ELSE LET first == df.rows[CHOOSE i \in idx : \A j \in idx : i <= j][col]
            IN IF IsDate(first) THEN first.fmt ELSE "any"

\* One value of pd.to_datetime(df[col], errors="coerce"): a date string in another
\* format than the inferred one is NaT, as is everything that is no date
to_datetime_series(df, col, c) ==
    IF IsDate(c) /\ infer_format(df, col) \in {"any", c.fmt} THEN c ELSE NA

\* One value of
\* pd.to_datetime(df[col], errors="coerce").dt.strftime("%m/%d/%Y").replace("NaT", "").fillna("")
format_dates_cell(df, col, c) ==
    IF IsDate(to_datetime_series(df, col, c))
    THEN strftime_mdy(to_datetime_series(df, col, c)) ELSE EmptyStr

\* set(df["LAN"].values)
LANs(df) == {df.rows[i]["LAN"] : i \in 1..Len(df.rows)}

----------------------------------------------------------------------------
(* Weekly Endorsement page (src/src/pages/2_*_Weekly_Endorsement.py) *)

\* The template columns the model carries (a subset of the 46 of the source)
TEMPLATE_HEADERS ==
    {"CLASSIFICATION", "ENDO DATE", "DATE REFERRED", "LAN", "NAME",
     "DUE DATE", "OLDEST DUE DATE", "NEXT DUE DATE"}

DATE_COLUMNS ==
    {"DATE", "PTP DATE", "ENDO DATE", "DATE REFERRED", "LAST PAYMENT DATE",
     "LOAN MATURITY", "OLDEST DUE DATE", "NEXT DUE DATE", "REPRICING DATE"}

\* The entries of tad_column_map whose target the model carries
tad_column_map == {<<"DATE REFERRED", "DATE REFERRED">>, <<"LAN", "LAN">>}

\* The entries of endorsement_column_map whose target the model carries
endorsement_column_map ==
    <<  <<"OLDEST_DUE_DATE", "OLDEST DUE DATE">>, <<"NAME_ALS", "NAME">>  >>

\* Loading the endorsement upload: ACCTNUM is renamed to LAN, then keys are stripped
\* and deduplicated
weekly_load_endorsement(df) == load_keyed(rename_column(df, "ACCTNUM", "LAN"))

\* Step 2: active_file[template_col] = tad_df[tad_col] if present else ""
build_active_file(tad_df) ==
    LET cols == {m[2] : m \in tad_column_map}
        src(c) == (CHOOSE m \in tad_column_map : m[2] = c)[1]
    IN DataFrame(cols,
                 [i \in 1..Len(tad_df.rows) |->
                     [c \in cols |->
                         IF src(c) \in tad_df.columns THEN tad_df.rows[i][src(c)]
                         ELSE EmptyStr]])

\* A precedence in which the endorsement value always wins
RECURSIVE apply_endorsement_mappings_overwrite(_, _)
apply_endorsement_mappings_overwrite(df, maps) ==
    IF maps = <<>> THEN df
    ELSE LET src == Head(maps)[1]
             tgt == Head(maps)[2]
             step == IF src \notin df.columns THEN df
                     ELSE with_column(df, tgt, LAMBDA r : r[src])
         IN apply_endorsement_mappings_overwrite(step, Tail(maps))

\* Apply endorsement mappings: a missing target column is created from the source
\* column, an existing one is filled where it is NaN (Series.fillna)
RECURSIVE apply_endorsement_mappings(_, _)
apply_endorsement_mappings(df, maps) ==
    IF maps = <<>> THEN df
    ELSE LET src == Head(maps)[1]
             tgt == Head(maps)[2]
             step == IF src \notin df.columns THEN df
                     ELSE IF tgt \notin df.columns
                          THEN with_column(df, tgt, LAMBDA r : r[src])
                          ELSE with_column(df, tgt,
                                   LAMBDA r : IF isna(r[tgt]) THEN r[src] ELSE r[tgt])
         IN apply_endorsement_mappings(step, Tail(maps))

\* A classification that never finds the key in the masterlist
classification_never_found(lan, masterlist_lans) == Txt("NEW ENDO")

\* lambda lan: "REENDO" if lan in masterlist_lans else "NEW ENDO"
classification(lan, masterlist_lans) ==
    IF lan \in masterlist_lans THEN Txt("REENDO") ELSE Txt("NEW ENDO")

\* str(date_ref).strip() != ""
is_blank(c) == c.k = "txt" /\ c.s \in {"", " "}

\* A lookup that reads the masterlist's first row instead of the row of the key
get_date_referred_first_row(row, masterlist_df, today_str) ==
    IF row["CLASSIFICATION"] = Txt("NEW ENDO") THEN today_str
    ELSE IF masterlist_df.rows # <<>> /\ "DATE REFERRED" \in masterlist_df.columns
              /\ IsDate(masterlist_df.rows[1]["DATE REFERRED"])
         THEN strftime_mdy(masterlist_df.rows[1]["DATE REFERRED"])
         ELSE today_str

\* get_date_referred(row) of the weekly page
get_date_referred(row, masterlist_df, today_str) ==
    IF row["CLASSIFICATION"] = Txt("NEW ENDO") THEN today_str
    ELSE LET master_row == SelectSeq(masterlist_df.rows,
                                     LAMBDA m : m["LAN"] = row["LAN"])
         IN IF master_row # <<>> /\ "DATE REFERRED" \in masterlist_df.columns
            THEN LET date_ref == master_row[1]["DATE REFERRED"]
                 IN IF notna(date_ref) /\ ~is_blank(date_ref)
                    THEN (IF IsDate(date_ref) THEN strftime_mdy(date_ref) ELSE date_ref)
                    ELSE today_str
            ELSE today_str

\* for col in DATE_COLUMNS: if col in df.columns: df[col] = format_dates(df[col])
format_date_columns(df) ==
    [df EXCEPT !.rows = [i \in 1..Len(df.rows) |->
        [c \in df.columns |->
            IF c \in DATE_COLUMNS THEN format_dates_cell(df, c, df.rows[i][c])
            ELSE df.rows[i][c]]]]

\* Series.fillna("").astype(str).replace("nan", "").replace(".0", ""): replace() swaps
\* whole values only, so the ".0" of a float64 column stays
due_date_as_str(c) ==
    IF c.k = "num"
    THEN Txt(IF c.float THEN ToString(c.v) \o ".0" ELSE ToString(c.v))
    ELSE EmptyStr

\* Compute Due Dates of the weekly page
weekly_compute_due_dates(df) ==
    LET src == ensure_columns_with(df, {"OLDEST DUE DATE"}, NA)
        parsed(r) == to_datetime_series(src, "OLDEST DUE DATE", Get(r, "OLDEST DUE DATE"))
        \* Series.dt.day is int32, and float64 as soon as one value is NaT
        anyNaT == \E i \in 1..Len(df.rows) : parsed(df.rows[i]) = NA
        a == with_column(df, "OLDEST DUE DATE", parsed)
        b == with_column(a, "DUE DATE",
                 LAMBDA r : IF IsDate(r["OLDEST DUE DATE"])
                            THEN Num(r["OLDEST DUE DATE"].d, anyNaT) ELSE NA)
        c == with_column(b, "NEXT DUE DATE",
                 LAMBDA r : IF IsDate(r["OLDEST DUE DATE"])
                            THEN DateOffset_months_1(r["OLDEST DUE DATE"]) ELSE NA)
        d == format_date_columns(c)
    IN with_column(d, "DUE DATE", LAMBDA r : due_date_as_str(r["DUE DATE"]))

\* Step 5: the REENDO rows whose DATE REFERRED equals their ENDO DATE
weekly_suspicious(active_file) ==
    filter_rows(active_file,
                LAMBDA r : r["CLASSIFICATION"] = Txt("REENDO")
                           /\ r["DATE REFERRED"] = r["ENDO DATE"])

NoTable == DataFrame({}, <<>>)

WeeklyScreen(status, final_active, for_upload, for_update, consolidated, suspicious) ==
    [page |-> "weekly", status |-> status, final_active |-> final_active,
     for_upload |-> for_upload, for_update |-> for_update,
     consolidated_masterlist |-> consolidated, suspicious |-> suspicious]

\* The Auto-Processing block: what one script run renders from the three tables
weekly_processing(tad_df, endorsement_df, masterlist_df0, run_date) ==
    IF "LAN" \notin endorsement_df.columns \/ "LAN" \notin masterlist_df0.columns
    THEN \* KeyError, caught by "except Exception": st.error, nothing is offered
         WeeklyScreen("error", NoTable, NoTable, NoTable, NoTable, NoTable)
    ELSE
    LET today_str == strftime_mdy(run_date)
        active0 == strip_LAN(build_active_file(tad_df))
        merged == merge_left(active0, strip_LAN(endorsement_df), "_ENDO")
        mapped == apply_endorsement_mappings(merged, endorsement_column_map)
        masterlist_df == strip_LAN(masterlist_df0)
        masterlist_lans == LANs(masterlist_df)
        classified == with_column(mapped, "CLASSIFICATION",
                          LAMBDA r : classification(r["LAN"], masterlist_lans))
        dated == with_column(classified, "ENDO DATE", LAMBDA r : today_str)
        referred == with_column(dated, "DATE REFERRED",
                        LAMBDA r : get_date_referred(r, masterlist_df, today_str))
        suspicious == weekly_suspicious(referred)
    IN IF suspicious.rows # <<>>
       THEN \* st.error + st.stop(): the run halts and shows the suspicious rows
            WeeklyScreen("halted", NoTable, NoTable, NoTable, NoTable,
                         project(ensure_columns_with(suspicious, {"NAME"}, EmptyStr),
                                 {"LAN", "NAME", "CLASSIFICATION", "DATE REFERRED",
                                  "ENDO DATE"}))
       ELSE
       LET active_file == ensure_columns_with(weekly_compute_due_dates(referred),
                                              TEMPLATE_HEADERS, EmptyStr)
           final_active == project(active_file, TEMPLATE_HEADERS)
           for_upload == filter_rows(final_active,
                             LAMBDA r : r["CLASSIFICATION"] = Txt("NEW ENDO"))
           for_update == filter_rows(final_active,
                             LAMBDA r : r["CLASSIFICATION"] = Txt("REENDO"))
           consolidated == format_date_columns(
               concat(ensure_columns_with(masterlist_df, final_active.columns, EmptyStr),
                      final_active))
       IN WeeklyScreen("complete", final_active, for_upload, for_update,
                       consolidated, NoTable)

----------------------------------------------------------------------------
(* New Endorsement (monthly) page (src/src/pages/1_*_New_Endorsement.py) *)

\* The entries of the page's column_map whose target the model carries
monthly_column_map ==
    <<  <<"Oldest_Due_date", "OLDEST DUE DATE">>, <<"NAME_ALS", "NAME">>  >>

\* Step 2: the TAD table aligned with the template; columns nothing maps to stay NaN
monthly_align_tad(tad_df0) ==
    LET tad_df == normalize_columns(tad_df0)
        src(c) == (CHOOSE m \in tad_column_map : m[2] = c)[1]
        mapped == {m[2] : m \in tad_column_map}
    IN DataFrame(TEMPLATE_HEADERS,
                 [i \in 1..Len(tad_df.rows) |->
                     [c \in TEMPLATE_HEADERS |->
                         IF c \in mapped
                         THEN (IF src(c) \in tad_df.columns THEN tad_df.rows[i][src(c)]
                               ELSE EmptyStr)
                         ELSE NA]])

\* for source_col, target_col in column_map.items(): merged_df[target] = merged_df[source]
RECURSIVE monthly_apply_column_map(_, _)
monthly_apply_column_map(df, maps) ==
    IF maps = <<>> THEN df
    ELSE LET src == Head(maps)[1]
             tgt == Head(maps)[2]
             step == IF src \in df.columns THEN with_column(df, tgt, LAMBDA r : r[src])
                     ELSE df
         IN monthly_apply_column_map(step, Tail(maps))

\* lambda lan: "REENDO" if lan in masterlist_df["LAN"].values else "NEW ENDO"
monthly_classification(lan, masterlist_df) ==
    IF \E i \in 1..Len(masterlist_df.rows) : masterlist_df.rows[i]["LAN"] = lan
    THEN Txt("REENDO") ELSE Txt("NEW ENDO")

\* get_date_referred(row) of the monthly page: the first matching entry's stored value
monthly_get_date_referred(row, masterlist_df, today_iso) ==
    IF row["CLASSIFICATION"] = Txt("NEW ENDO") THEN today_iso
    ELSE LET prev_date == SelectSeq(masterlist_df.rows, LAMBDA m : m["LAN"] = row["LAN"])
         IN IF prev_date # <<>> THEN prev_date[1]["DATE REFERRED"] ELSE today_iso

MonthlyScreen(status, merged_df, final_df) ==
    [page |-> "monthly", status |-> status, merged_df |-> merged_df, final_df |-> final_df]

\* The body of "if st.button(Merge with ENDORSEMENT FILE)"
monthly_merge(ss, run_date) ==
    IF ~("endorsement_df" \in DOMAIN ss /\ "aligned_tad" \in DOMAIN ss)
    THEN \* merged_df is unbound: the try raises NameError, and the except branch raises
         \* it again when it builds final_df
         MonthlyScreen("exception", NoTable, NoTable)
    ELSE
    LET today_iso == strftime_iso(run_date)
        endorsement_df == rename_column(ss["endorsement_df"], "ACCTNUM", "LAN")
    IN IF "LAN" \notin endorsement_df.columns
       THEN MonthlyScreen("exception", NoTable, NoTable)   \* KeyError in pd.merge
       ELSE
       LET merged == monthly_apply_column_map(
                         merge_left(ss["aligned_tad"], endorsement_df, "_ENDORSEMENT"),
                         monthly_column_map)
           has_master == "masterlist_df" \in DOMAIN ss
                         /\ "LAN" \in ss["masterlist_df"].columns
       IN IF has_master /\ "DATE REFERRED" \notin ss["masterlist_df"].columns
             /\ \E i \in 1..Len(merged.rows) :
                    monthly_classification(merged.rows[i]["LAN"], ss["masterlist_df"])
                        = Txt("REENDO")
          THEN MonthlyScreen("exception", NoTable, NoTable)   \* KeyError "DATE REFERRED"
          ELSE
          LET classified ==
                  with_column(merged, "CLASSIFICATION",
                      LAMBDA r : IF has_master
                                 THEN monthly_classification(r["LAN"], ss["masterlist_df"])
                                 ELSE Txt("NEW ENDO"))
              referred ==
                  with_column(classified, "DATE REFERRED",
                      LAMBDA r : IF has_master
                                 THEN monthly_get_date_referred(r, ss["masterlist_df"],
                                                                today_iso)
                                 ELSE today_iso)
              dated == with_column(referred, "ENDO DATE", LAMBDA r : today_iso)
          IN \* the try computes the due dates without raising, so its else branch runs:
             \* the "upload and align both files" warning; final_df is built only in the
             \* except branch
             MonthlyScreen("warning_upload_both", dated, NoTable)

----------------------------------------------------------------------------
(* The files a user uploads on the endorsement pages *)

RunDates == {Date(2026, 11, 3), Date(2024, 1, 15)}

TadKeys == {Key(<<" ", "A">>), Key(<<"B">>), Key(<<"C">>)}
MasterKeys == {Key(<<"A">>), Key(<<"B", " ">>)}
MasterDates == {Date(2024, 1, 15), IsoDate(2026, 11, 3), Txt("00/00/00"), NA}

TadRows == {("LAN" :> k) : k \in TadKeys}
MasterRows == {("LAN" :> k) @@ ("DATE REFERRED" :> d) : k \in MasterKeys, d \in MasterDates}

TadFiles ==
    {File("TAD.xlsx", DataFrame({"LAN"}, rows)) : rows \in SeqUpTo(TadRows, MaxTadRows)}

MasterFiles ==
    {File("MASTERLIST.xlsx", DataFrame({"LAN", "DATE REFERRED"}, rows)) :
        rows \in SeqUpTo(MasterRows, MaxMasterRows)}
    \cup {File("MASTERLIST.xlsx", DataFrame({"LAN"}, <<("LAN" :> Key(<<"A">>))>>)),
          File("MASTERLIST.xlsx",
               DataFrame({"DATE REFERRED"}, <<("DATE REFERRED" :> Date(2024, 1, 15))>>))}

EndorsementFiles ==
    {File("M1.xlsx",
          DataFrame({"LAN", "Oldest_Due_date", "NAME_ALS"},
                    << ("LAN" :> Key(<<"A">>)) @@ ("Oldest_Due_date" :> Date(2024, 1, 31))
                          @@ ("NAME_ALS" :> Txt("ANA")),
                       ("LAN" :> Key(<<"B">>)) @@ ("Oldest_Due_date" :> Txt("n/a"))
                          @@ ("NAME_ALS" :> NA) >>)),
     File("M1.xlsx",
          DataFrame({"ACCTNUM", "Oldest_Due_date"},
                    << ("ACCTNUM" :> Key(<<" ", "A">>))
                          @@ ("Oldest_Due_date" :> Date(2024, 12, 31)),
                       ("ACCTNUM" :> Key(<<"C">>))
                          @@ ("Oldest_Due_date" :> Date(2023, 1, 31)) >>)),
     File("M1.xlsx", DataFrame({"NAME_ALS"}, <<("NAME_ALS" :> Txt("ANA"))>>)),
     \* an endorsement table that has the canonical NAME column next to NAME_ALS
     File("M1.xlsx",
          DataFrame({"LAN", "NAME", "NAME_ALS"},
                    << ("LAN" :> Key(<<"A">>)) @@ ("NAME" :> Txt("ANA CRUZ"))
                          @@ ("NAME_ALS" :> Txt("ANA")),
                       ("LAN" :> Key(<<"B">>)) @@ ("NAME" :> NA)
                          @@ ("NAME_ALS" :> Txt("BEN")) >>)),
     \* two endorsement records of one account
     File("M1.xlsx",
          DataFrame({"LAN", "Oldest_Due_date"},
                    << ("LAN" :> Key(<<"C">>)) @@ ("Oldest_Due_date" :> Date(2024, 1, 31)),
                       ("LAN" :> Key(<<"C">>))
                          @@ ("Oldest_Due_date" :> Date(2024, 2, 29)) >>))}

NoUploads == [x \in {} |-> NoTable]
EmptySession == [x \in {} |-> NoTable]
BlankScreen == [page |-> "none", status |-> "idle"]

----------------------------------------------------------------------------
(* Script runs of the endorsement pages *)

\* Upload Section of the weekly page: every uploader that holds a file stores its table
weekly_load(ss, up) ==
    LET a == IF "tad" \in DOMAIN up
             THEN Put(ss, "tad_df", load_keyed(normalize_columns(up["tad"].df))) ELSE ss
        b == IF "endorsement" \in DOMAIN up
             THEN Put(a, "endorsement_df",
                      weekly_load_endorsement(normalize_columns(up["endorsement"].df)))
             ELSE a
    IN IF "masterlist" \in DOMAIN up
       THEN Put(b, "masterlist_df", load_keyed(normalize_columns(up["masterlist"].df)))
       ELSE b

\* One run of the weekly script on the session
weekly_script(ss, run_date) ==
    IF {"tad_df", "endorsement_df", "masterlist_df"} \subseteq DOMAIN ss
    THEN weekly_processing(normalize_columns(ss["tad_df"]),
                           normalize_columns(ss["endorsement_df"]),
                           normalize_columns(ss["masterlist_df"]), run_date)
    ELSE WeeklyScreen("info_upload_all", NoTable, NoTable, NoTable, NoTable, NoTable)

\* Load files and Step 2 of the monthly page: tables are stored as read
monthly_load(ss, up) ==
    LET a == IF "endorsement" \in DOMAIN up
             THEN Put(ss, "endorsement_df", up["endorsement"].df) ELSE ss
        b == IF "tad" \in DOMAIN up THEN Put(a, "tad_df", up["tad"].df) ELSE a
        c == IF "tad_df" \in DOMAIN b
             THEN Put(Put(b, "tad_df", normalize_columns(b["tad_df"])),
                      "aligned_tad", monthly_align_tad(b["tad_df"]))
             ELSE b
    IN IF "masterlist" \in DOMAIN up THEN Put(c, "masterlist_df", up["masterlist"].df)
       ELSE c

UploaderFiles(key) ==
    CASE key = "tad" -> TadFiles
      [] key = "endorsement" -> EndorsementFiles
      [] key = "masterlist" -> MasterFiles

\* The user puts a file in an uploader of the weekly page; the script reruns.
\* (Replacing a file leads to a state a fresh session reaches too, as the page keeps
\* nothing but the loaded tables, so each uploader is filled once.)
WeeklyUpload ==
    /\ page = "weekly"
    /\ \E key \in {"tad", "endorsement", "masterlist"} \ DOMAIN uploaded :
       \E f \in UploaderFiles(key) :
          /\ uploaded' = Put(uploaded, key, f)
          /\ session_state' = weekly_load(session_state, uploaded')
          /\ screen' = weekly_script(session_state', today)
    /\ UNCHANGED <<page, today>>

\* The user puts a file in an uploader of the monthly page; the script reruns
MonthlyUpload ==
    /\ page = "monthly"
    /\ \E key \in {"tad", "endorsement", "masterlist"} \ DOMAIN uploaded :
       \E f \in UploaderFiles(key) :
          /\ uploaded' = Put(uploaded, key, f)
          /\ session_state' = monthly_load(session_state, uploaded')
          /\ screen' = MonthlyScreen("idle", NoTable, NoTable)
    /\ UNCHANGED <<page, today>>

\* The user presses "Merge with ENDORSEMENT FILE"; the script reruns with the button set
MonthlyMergeButton ==
    /\ page = "monthly"
    /\ session_state' = monthly_load(session_state, uploaded)
    /\ screen' = monthly_merge(session_state', today)
    /\ UNCHANGED <<page, uploaded, today>>

InitEndorsement ==
    /\ page \in {"weekly", "monthly"}
    /\ uploaded = NoUploads
    /\ session_state = EmptySession
    /\ today \in RunDates
    /\ screen = BlankScreen

NextEndorsement == WeeklyUpload \/ MonthlyUpload \/ MonthlyMergeButton

SpecEndorsement == InitEndorsement /\ [][NextEndorsement]_vars

----------------------------------------------------------------------------
(* Daily TAD Update page (src/src/pages/3_*_Daily_TAD_Update.py) *)

\* The standard headers the model carries (a subset of the 46 of the source)
daily_STANDARD_HEADERS ==
    {"CLASSIFICATION", "ENDO DATE", "DATE REFERRED", "LAN", "NAME", "PAST DUE", "DPD",
     "DUE DATE", "OLDEST DUE DATE", "NEXT DUE DATE"}

\* The refreshed columns the model carries
columns_to_update == {"PAST DUE", "DPD"}

\* The numeric columns the model carries
numeric_cols == {"PAST DUE"}

\* The values the revive lookup treats as no DATE REFERRED
invalid_dates ==
    {"0", "0/00/0000", "00/00/00", "NaT", "nan", "None", "", "1970-01-01", "01/01/1970",
     "1/1/1970"}

\* The file names of the model that re.match accepts for each expected type, the name
\* uppercased first
validate_filename(filename, expected_type) ==
    CASE expected_type = "active" ->
             filename \in {"ACTIVE FILES 110226.xlsx", "active files 110226.xlsx"}
      [] expected_type = "tad" ->
             filename \in {"TAD_SPM M1_11.03.2026.xlsx"}
      [] expected_type = "master" ->
             filename \in {"MASTERLIST 11032026.xlsx"}
      [] OTHER -> FALSE

\* One value of clean_numeric: the text of the number without currency signs, commas
\* and dashes, to_numeric(errors="coerce"), fillna(0)
clean_numeric_cell(c) ==
    IF c.k = "num" THEN Num(IF c.v < 0 THEN 0 - c.v ELSE c.v, TRUE) ELSE Num(0, TRUE)

\* clean_numeric(df, columns)
clean_numeric(df, columns) ==
    [df EXCEPT !.rows = [i \in 1..Len(df.rows) |->
        [c \in df.columns |->
            IF c \in columns THEN clean_numeric_cell(df.rows[i][c]) ELSE df.rows[i][c]]]]

\* df.empty
empty(df) == df.rows = <<>> \/ df.columns = {}

\* standardize_headers(df): the standard headers, pd.NA where df has no such column
standardize_headers(df) ==
    IF empty(df) THEN DataFrame(daily_STANDARD_HEADERS, <<>>)
    ELSE DataFrame(daily_STANDARD_HEADERS,
                   [i \in 1..Len(df.rows) |->
                       [c \in daily_STANDARD_HEADERS |-> Get(df.rows[i], c)]])

\* One value of pd.to_datetime(df[col], format="%m/%d/%Y", errors="coerce")
to_datetime_mdy(c) == IF IsDate(c) /\ c.fmt = "mdy" THEN c ELSE NA

\* format_dates(df) of the daily page
daily_format_dates(df) ==
    IF empty(df) THEN df
    ELSE [df EXCEPT !.rows = [i \in 1..Len(df.rows) |->
            [c \in df.columns |->
                IF c \in DATE_COLUMNS
                THEN (IF IsDate(to_datetime_mdy(df.rows[i][c]))
                      THEN to_datetime_mdy(df.rows[i][c]) ELSE EmptyStr)
                ELSE df.rows[i][c]]]]

\* align_headers(df, template_headers) of the daily page, for the download
daily_align_headers(df, template_headers) ==
    project(ensure_columns_with(df, template_headers, EmptyStr), template_headers)

\* The day count of the proleptic Gregorian calendar turned into a date; z counts the
\* days since 0000-03-01
civil_from_days(z) ==
    LET era == z \div 146097
        doe == z - era * 146097
        yoe == (doe - doe \div 1460 + doe \div 36524 - doe \div 146096) \div 365
        doy == doe - (365 * yoe + yoe \div 4 - yoe \div 100)
        mp == (5 * doy + 2) \div 153
        d == doy - (153 * mp + 2) \div 5 + 1
        m == IF mp < 10 THEN mp + 3 ELSE mp - 9
        y == yoe + era * 400 + (IF m <= 2 THEN 1 ELSE 0)
    IN Date(y, m, d)

\* The days from 0000-03-01 to 1899-12-30
EXCEL_EPOCH == 693899

\* excel_date_to_datetime(val): pd.Timestamp("1899-12-30") + val days; NaT for what
\* float() cannot convert and for NaN
excel_date_to_datetime(val) ==
    IF val.k = "num" THEN civil_from_days(EXCEL_EPOCH + val.v) ELSE NA

\* A row-wise choice that takes the masterlist's date whenever there is one
max_axis1_masterlist_first(a, b) == IF b # NA THEN b ELSE a

\* revive_merged[["OLDEST DUE DATE", "OLDEST DUE DATE_ML"]].max(axis=1): NaT is skipped
max_axis1(a, b) ==
    IF a = NA THEN b ELSE IF b = NA THEN a ELSE IF DateLE(a, b) THEN b ELSE a

\* mask_ref: DATE REFERRED is NaN or its stripped text is one of invalid_dates
mask_ref(c) ==
    \/ isna(c)
    \/ c.k = "txt" /\ (c.s \in invalid_dates \/ c.s = " ")
    \/ IsDate(c) /\ c.y = 1970 /\ c.m = 1 /\ c.d = 1

\* Fix DATE REFERRED: where it is invalid it takes the masterlist's value
fix_date_referred(revive_merged) ==
    IF "DATE REFERRED_ML" \in revive_merged.columns
    THEN with_column(revive_merged, "DATE REFERRED",
             LAMBDA r : IF mask_ref(r["DATE REFERRED"])
                        THEN r["DATE REFERRED_ML"] ELSE r["DATE REFERRED"])
    ELSE revive_merged

\* The later of the TAD's OLDEST DUE DATE and the masterlist's serial, for one row
oldest_of(r) ==
    max_axis1(to_datetime_mdy(r["OLDEST DUE DATE"]),
              excel_date_to_datetime(r["OLDEST DUE DATE_ML"]))

\* NEXT DUE DATE, DUE DATE and the formatted OLDEST DUE DATE of one row; any_nat says
\* whether the batch has a NaT, which makes Series.dt.day a float64 column
due_dates_of(r, any_nat) ==
    [c \in DOMAIN r \ {"OLDEST DUE DATE_ML"} |->
        CASE c = "OLDEST DUE DATE" ->
                 IF IsDate(oldest_of(r)) THEN strftime_mdy(oldest_of(r)) ELSE EmptyStr
          [] c = "NEXT DUE DATE" ->
                 IF IsDate(oldest_of(r)) THEN DateOffset_months_1(oldest_of(r))
                 ELSE EmptyStr
          [] c = "DUE DATE" ->
                 IF IsDate(oldest_of(r)) THEN Num(oldest_of(r).d, any_nat) ELSE NA
          [] OTHER -> r[c]]

\* Fix OLDEST DUE DATE: the later of the TAD date and the masterlist serial, then
\* NEXT DUE DATE and DUE DATE from it; the masterlist's column is dropped
fix_oldest_due_date(revive_merged) ==
    IF "OLDEST DUE DATE_ML" \in revive_merged.columns
    THEN DataFrame(revive_merged.columns \ {"OLDEST DUE DATE_ML"},
                   [i \in 1..Len(revive_merged.rows) |->
                       due_dates_of(revive_merged.rows[i],
                                    \E j \in 1..Len(revive_merged.rows) :
                                        oldest_of(revive_merged.rows[j]) = NA)])
    ELSE revive_merged

\* Fill all other missing columns from masterlist: where the standard column is NaN it
\* takes the masterlist's value, and the masterlist's column is dropped.  The columns
\* the model gives a masterlist are object columns, which astype(col_type) leaves as
\* they are.
fill_from_masterlist(revive_merged) ==
    LET filled == {c \in daily_STANDARD_HEADERS : (c \o "_ML") \in revive_merged.columns}
        cols == revive_merged.columns \ {c \o "_ML" : c \in filled}
    IN DataFrame(cols,
                 [i \in 1..Len(revive_merged.rows) |->
                     [c \in cols |->
                         IF c \in filled /\ isna(revive_merged.rows[i][c])
                         THEN revive_merged.rows[i][c \o "_ML"]
                         ELSE revive_merged.rows[i][c]]])

\* Lookup data from Masterlist
revive_lookup(revive_accounts, masterlist_df) ==
    format_date_columns(
        fill_from_masterlist(
            fix_oldest_due_date(
                fix_date_referred(
                    merge_left(revive_accounts, strip_LAN(masterlist_df), "_ML")))))

\* The TAD rows of the revive keys with the standard headers, as REENDO of the run date
revive_rows(revive_accounts_tad, run_date) ==
    with_column(
        with_column(ensure_columns_with(revive_accounts_tad, daily_STANDARD_HEADERS, NA),
                    "CLASSIFICATION", LAMBDA r : Txt("REENDO")),
        "ENDO DATE", LAMBDA r : strftime_mdy(run_date))

\* Attach REVIVE accounts: completed from the masterlist when there is one with a LAN
\* column
attach_revive(revive_accounts_tad, masterlist_df, run_date) ==
    IF ~empty(masterlist_df) /\ "LAN" \in masterlist_df.columns
    THEN revive_lookup(revive_rows(revive_accounts_tad, run_date), masterlist_df)
    ELSE revive_rows(revive_accounts_tad, run_date)

ResultKeys ==
    {"final_active_list", "pullout_accounts", "for_update_accounts", "for_upload_accounts",
     "revive_display", "metrics"}

\* st.session_state.pop(key, None) for every key of keys
Pop(f, keys) == [x \in DOMAIN f \ keys |-> f[x]]

\* Partitions whose FOR UPDATE set keeps the revived accounts
store_results_update_all(ss, today_tad, yesterday_all_lans, revive_lans, counts, pullout_accounts, revive_accounts_tad, updated_active) ==
    LET results ==
            [final_active_list |-> standardize_headers(updated_active),
             pullout_accounts |-> standardize_headers(daily_format_dates(pullout_accounts)),
             for_update_accounts |-> standardize_headers(updated_active),
             for_upload_accounts |->
                 standardize_headers(
                     filter_rows(updated_active,
                                 LAMBDA r : r["LAN"] \notin yesterday_all_lans)),
             revive_display |->
                 IF revive_accounts_tad.rows # <<>>
                 THEN standardize_headers(daily_format_dates(revive_accounts_tad))
                 ELSE standardize_headers(NoTable),
             metrics |-> [total_tad |-> Len(today_tad.rows),
                          tad_pastdue_count |-> counts.tad_pastdue_count,
                          active_pastdue_count |-> counts.active_pastdue_count,
                          pullout_count |-> Len(pullout_accounts.rows),
                          revive_count |-> Len(revive_accounts_tad.rows),
                          forupdate_count |-> Len(updated_active.rows)],
             processing_complete |-> TRUE]
    IN [ss |-> [x \in DOMAIN ss \cup DOMAIN results |->
                   IF x \in DOMAIN results THEN results[x] ELSE ss[x]],
        end |-> "done"]

\* Store results in session state: the partitions of the formatted active list
store_results(ss, today_tad, yesterday_all_lans, revive_lans, counts, pullout_accounts, revive_accounts_tad, updated_active) ==
    LET new_lans == LANs(today_tad) \ yesterday_all_lans
        for_update == filter_rows(updated_active, LAMBDA r : r["LAN"] \notin revive_lans)
        results ==
            [final_active_list |-> standardize_headers(updated_active),
             pullout_accounts |-> standardize_headers(daily_format_dates(pullout_accounts)),
             for_update_accounts |-> standardize_headers(for_update),
             for_upload_accounts |->
                 standardize_headers(
                     filter_rows(updated_active, LAMBDA r : r["LAN"] \in new_lans)),
             revive_display |->
                 IF revive_accounts_tad.rows # <<>>
                 THEN standardize_headers(daily_format_dates(revive_accounts_tad))
                 ELSE standardize_headers(NoTable),
             metrics |-> [total_tad |-> Len(today_tad.rows),
                          tad_pastdue_count |-> counts.tad_pastdue_count,
                          active_pastdue_count |-> counts.active_pastdue_count,
                          pullout_count |-> Len(pullout_accounts.rows),
                          revive_count |-> Len(revive_accounts_tad.rows),
                          forupdate_count |-> Len(for_update.rows)],
             processing_complete |-> TRUE]
    IN [ss |-> [x \in DOMAIN ss \cup DOMAIN results |->
                   IF x \in DOMAIN results THEN results[x] ELSE ss[x]],
        end |-> "done"]

\* An append that leaves the revived accounts out of the active list
append_revive_dropped(ss, today_tad, yesterday_all_lans, revive_lans, counts, pullout_accounts, revive_accounts_tad, updated_active, revive_accounts) ==
    store_results(ss, today_tad, yesterday_all_lans, revive_lans, counts,
                  pullout_accounts, revive_accounts_tad,
                  daily_format_dates(updated_active))

\* Align and append to active list, then format the dates
append_revive(ss, today_tad, yesterday_all_lans, revive_lans, counts, pullout_accounts, revive_accounts_tad, updated_active, revive_accounts) ==
    IF revive_accounts_tad.rows = <<>>
    THEN store_results(ss, today_tad, yesterday_all_lans, revive_lans, counts,
                       pullout_accounts, revive_accounts_tad,
                       daily_format_dates(updated_active))
    ELSE IF ~(updated_active.columns \subseteq revive_accounts.columns)
    THEN [ss |-> ss, end |-> "exception"]   \* KeyError: revive_accounts[updated_active.columns]
    ELSE store_results(ss, today_tad, yesterday_all_lans, revive_lans, counts,
                       pullout_accounts, revive_accounts_tad,
                       daily_format_dates(
                           concat(updated_active,
                                  project(revive_accounts, updated_active.columns))))

\* Identify REVIVE accounts and attach them
identify_revive(ss, today_tad, yesterday_all_lans, masterlist_df, run_date, counts, pullout_accounts, updated_active, revive_accounts_tad) ==
    append_revive(ss, today_tad, yesterday_all_lans, LANs(revive_accounts_tad), counts,
                  pullout_accounts, revive_accounts_tad, updated_active,
                  attach_revive(revive_accounts_tad, masterlist_df, run_date))

\* A filter that revives every key that is new today, whatever its past due
filter_accounts_revive_all_new(ss, today_tad, yesterday_all_lans, masterlist_df, run_date, updated_active) ==
    identify_revive(
        ss, today_tad, yesterday_all_lans, masterlist_df, run_date,
        [tad_pastdue_count |->
             Len(SelectSeq(today_tad.rows, LAMBDA r : r["PAST DUE"].v > 0)),
         active_pastdue_count |->
             Len(SelectSeq(updated_active.rows, LAMBDA r : r["PAST DUE"].v > 0))],
        filter_rows(updated_active, LAMBDA r : r["PAST DUE"].v = 0),
        filter_rows(updated_active, LAMBDA r : r["PAST DUE"].v > 0),
        filter_rows(today_tad, LAMBDA r : r["LAN"] \notin yesterday_all_lans))

\* Filter accounts: the pullout accounts, the active ones and the revive keys
filter_accounts(ss, today_tad, yesterday_all_lans, masterlist_df, run_date, updated_active) ==
    identify_revive(
        ss, today_tad, yesterday_all_lans, masterlist_df, run_date,
        [tad_pastdue_count |->
             Len(SelectSeq(today_tad.rows, LAMBDA r : r["PAST DUE"].v > 0)),
         active_pastdue_count |->
             Len(SelectSeq(updated_active.rows, LAMBDA r : r["PAST DUE"].v > 0))],
        filter_rows(updated_active, LAMBDA r : r["PAST DUE"].v = 0),
        filter_rows(updated_active, LAMBDA r : r["PAST DUE"].v > 0),
        filter_rows(today_tad,
                    LAMBDA r : r["PAST DUE"].v > 0 /\ r["LAN"] \notin yesterday_all_lans))

\* A refresh that keeps yesterday's values
refresh_keeps_yesterday(yesterday_active, today_tad) ==
    ensure_columns_with(yesterday_active, daily_STANDARD_HEADERS, NA)

\* A refresh that takes every column of today's transactions, refreshed field or not
refresh_all_columns(yesterday_active, today_tad) ==
    with_column(
        merge_left(
            project(ensure_columns_with(yesterday_active, daily_STANDARD_HEADERS, NA),
                    (yesterday_active.columns \cup daily_STANDARD_HEADERS)
                        \ (today_tad.columns \ {"LAN"})),
            today_tad,
            "_y"),
        "PAST DUE",
        LAMBDA r : IF r["PAST DUE"].k = "num" THEN r["PAST DUE"] ELSE Num(0, TRUE))

\* A refresh that keeps yesterday's past due for the keys today's transactions lack
refresh_keeps_gone(yesterday_active, today_tad) ==
    with_column(
        merge_left(
            project(ensure_columns_with(yesterday_active, daily_STANDARD_HEADERS, NA),
                    (yesterday_active.columns \cup daily_STANDARD_HEADERS)
                        \ (columns_to_update \cap today_tad.columns)),
            project(today_tad, {"LAN"} \cup (columns_to_update \cap today_tad.columns)),
            "_y"),
        "PAST DUE",
        LAMBDA r : IF r["PAST DUE"].k = "num" THEN r["PAST DUE"]
                   ELSE IF "PAST DUE" \in yesterday_active.columns
                        THEN (CHOOSE y \in Range(yesterday_active.rows) :
                                  y["LAN"] = r["LAN"])["PAST DUE"]
                        ELSE Num(0, TRUE))

\* Update Active List columns based on TAD file: yesterday's rows with the refreshed
\* columns replaced by today's, NaN past due counted as 0
refresh(yesterday_active, today_tad) ==
    with_column(
        merge_left(
            project(ensure_columns_with(yesterday_active, daily_STANDARD_HEADERS, NA),
                    (yesterday_active.columns \cup daily_STANDARD_HEADERS)
                        \ (columns_to_update \cap today_tad.columns)),
            project(today_tad, {"LAN"} \cup (columns_to_update \cap today_tad.columns)),
            "_y"),
        "PAST DUE",
        LAMBDA r : IF r["PAST DUE"].k = "num" THEN r["PAST DUE"] ELSE Num(0, TRUE))

\* A processing that keeps yesterday's list as the active list when LAN is missing
process_tables_partial(ss, today_tad, yesterday_active, masterlist_df, run_date) ==
    IF "LAN" \notin yesterday_active.columns \/ "LAN" \notin today_tad.columns
    THEN [ss |-> Put(ss, "final_active_list", standardize_headers(yesterday_active)),
          end |-> "lan_missing"]
    ELSE IF "PAST DUE" \notin today_tad.columns
    THEN [ss |-> ss, end |-> "exception"]
    ELSE filter_accounts(ss, today_tad, LANs(yesterday_active), masterlist_df, run_date,
                         refresh(yesterday_active, today_tad))

\* The processing of the two normalized, cleaned tables
process_tables(ss, today_tad, yesterday_active, masterlist_df, run_date) ==
    IF "LAN" \notin yesterday_active.columns \/ "LAN" \notin today_tad.columns
    THEN [ss |-> ss, end |-> "lan_missing"]                \* st.error + st.stop()
    ELSE IF "PAST DUE" \notin today_tad.columns
    THEN [ss |-> ss, end |-> "exception"]                  \* KeyError: 'PAST DUE'
    ELSE filter_accounts(ss, today_tad, LANs(yesterday_active), masterlist_df, run_date,
                         refresh(yesterday_active, today_tad))

\* masterlist_df = st.session_state.get("masterlist_df", pd.DataFrame()), its columns
\* normalized when it is not empty
get_masterlist(ss) ==
    IF "masterlist_df" \notin DOMAIN ss THEN NoTable
    ELSE IF empty(ss["masterlist_df"]) THEN ss["masterlist_df"]
         ELSE normalize_columns(ss["masterlist_df"])

\* masterlist_df is the session's object, so normalizing its columns changes the session
normalize_session_masterlist(ss) ==
    IF "masterlist_df" \in DOMAIN ss THEN Put(ss, "masterlist_df", get_masterlist(ss))
    ELSE ss

\* The body of "if st.button(Process Daily Updates)": the session state it leaves and how
\* the run ended ("done", or the reason the script stopped before the results section)
daily_process(ss, run_date) ==
    IF "yesterday_df" \notin DOMAIN ss \/ "today_df" \notin DOMAIN ss
    THEN [ss |-> Pop(Put(ss, "processing_complete", FALSE), ResultKeys),
          end |-> "warning_upload_both"]
    ELSE process_tables(
             normalize_session_masterlist(Put(ss, "processing_complete", FALSE)),
             clean_numeric(normalize_columns(ss["today_df"]), numeric_cols),
             clean_numeric(normalize_columns(ss["yesterday_df"]), numeric_cols),
             get_masterlist(ss), run_date)

\* What the results section offers for download
daily_downloads(ss) ==
    LET revived == ss["metrics"].revive_count > 0
        none == DataFrame(daily_STANDARD_HEADERS, <<>>)
    IN [active |-> daily_align_headers(ss["final_active_list"], daily_STANDARD_HEADERS),
        pullout |-> daily_align_headers(ss["pullout_accounts"], daily_STANDARD_HEADERS),
        revive |-> IF revived
                   THEN daily_align_headers(ss["revive_display"], daily_STANDARD_HEADERS)
                   ELSE none,
        for_update |-> daily_align_headers(ss["for_update_accounts"], daily_STANDARD_HEADERS),
        for_upload |-> IF revived
                       THEN daily_align_headers(ss["for_upload_accounts"],
                                                daily_STANDARD_HEADERS)
                       ELSE none]

DailyScreen(status, downloads) == [page |-> "daily", status |-> status, downloads |-> downloads]

NoDownloads == [active |-> NoTable]

\* load_and_validate and the load step of one uploader of the daily page
daily_load_one(ss, up, widget, expected_type, key) ==
    IF widget \in DOMAIN up /\ validate_filename(up[widget].name, expected_type)
    THEN Put(ss, key, load_keyed(normalize_columns(up[widget].df)))
    ELSE ss

\* Load & Validate Each File
daily_load(ss, up) ==
    daily_load_one(
        daily_load_one(
            daily_load_one(ss, up, "yesterday", "active", "yesterday_df"),
            up, "today_tad", "tad", "today_df"),
        up, "masterlist", "master", "masterlist_df")

\* The button's body when the button is drawn (inside "if masterlist_file:") and pressed
daily_button(loaded, up, pressed, run_date) ==
    IF pressed /\ "masterlist" \in DOMAIN up
    THEN daily_process(loaded, run_date)
    ELSE [ss |-> loaded, end |-> "not_pressed"]

\* Display Results: nothing more when the script stopped, the results when
\* processing_complete is true, the warning when it is false
results_section(run) ==
    [ss |-> run.ss,
     screen |->
        IF run.end \in {"warning_upload_both", "lan_missing", "exception"}
        THEN DailyScreen(run.end, NoDownloads)
        ELSE IF "processing_complete" \notin DOMAIN run.ss
        THEN DailyScreen("idle", NoDownloads)
        ELSE IF run.ss["processing_complete"]
        THEN IF ResultKeys \subseteq DOMAIN run.ss
             THEN DailyScreen(IF run.end = "done" THEN "processed" ELSE "results",
                              daily_downloads(run.ss))
             ELSE DailyScreen("exception", NoDownloads)   \* KeyError: 'metrics'
        ELSE DailyScreen("warning", NoDownloads)]

\* One run of the page's script: the loads, the button, the results section
daily_script(ss0, up, pressed, run_date) ==
    results_section(daily_button(daily_load(ss0, up), up, pressed, run_date))

----------------------------------------------------------------------------
(* The files a user uploads on the daily page *)

MaxTodayRows == 2

YesterdayColumns == {"LAN", "PAST DUE", "CLASSIFICATION", "ENDO DATE", "DATE REFERRED"}

YRow(chars, past_due) ==
    [c \in YesterdayColumns |->
        CASE c = "LAN" -> Key(chars)
          [] c = "PAST DUE" -> Num(past_due, FALSE)
          [] c = "CLASSIFICATION" -> Txt("NEW ENDO")
          [] OTHER -> Date(2023, 12, 1)]

YesterdayFiles ==
    {File("ACTIVE FILES 110226.xlsx", DataFrame(YesterdayColumns, rows)) :
        rows \in {<<>>,
                  <<YRow(<<"A">>, 500)>>,
                  <<YRow(<<"A">>, 500), YRow(<<"B", " ">>, 500)>>,
                  <<YRow(<<"A">>, 0), YRow(<<"C">>, 500)>>,
                  <<YRow(<<"B", " ">>, 500), YRow(<<"B">>, 0)>>}}
    \cup {File("active files 110226.xlsx",
               DataFrame({"PAST DUE"}, <<[c \in {"PAST DUE"} |-> Num(500, FALSE)]>>)),
          File("ACTIVE FILES 110226.xlsx",
               DataFrame(YesterdayColumns \cup {"REMARKS"},
                         <<[c \in YesterdayColumns \cup {"REMARKS"} |->
                               IF c = "REMARKS" THEN Txt("called")
                               ELSE YRow(<<"A">>, 500)[c]]>>)),
          \* a list that has a refreshed column next to PAST DUE
          File("ACTIVE FILES 110226.xlsx",
               DataFrame(YesterdayColumns \cup {"DPD"},
                         <<[c \in YesterdayColumns \cup {"DPD"} |->
                               IF c = "DPD" THEN Num(30, FALSE)
                               ELSE YRow(<<"A">>, 500)[c]],
                           [c \in YesterdayColumns \cup {"DPD"} |->
                               IF c = "DPD" THEN Num(60, FALSE)
                               ELSE YRow(<<"B">>, 500)[c]]>>)),
          File("ACTIVE WORKLIST 110226.xlsx",
               DataFrame(YesterdayColumns, <<YRow(<<"A">>, 500)>>))}

TodayColumns == {"LAN", "PAST DUE", "OLDEST DUE DATE"}

TRow(chars, past_due, oldest) ==
    [c \in TodayColumns |->
        CASE c = "LAN" -> Key(chars)
          [] c = "PAST DUE" -> past_due
          [] OTHER -> oldest]

TodayRows ==
    {TRow(<<"A">>, Num(0, FALSE), NA),
     TRow(<<"A">>, Num(300, FALSE), Txt("garbage")),
     TRow(<<" ", "B">>, Num(-50, FALSE), Date(2024, 3, 15)),
     TRow(<<"C">>, Num(300, FALSE), Date(2024, 1, 31)),
     TRow(<<"C">>, Num(300, FALSE), Date(2024, 3, 15)),
     TRow(<<"C">>, Num(0, FALSE), Date(2024, 3, 15))}

TodayFiles ==
    {File("TAD_SPM M1_11.03.2026.xlsx", DataFrame(TodayColumns, rows)) :
        rows \in SeqUpTo(TodayRows, MaxTodayRows)}
    \cup {File("TAD_SPM M1_11.03.2026.xlsx",
               DataFrame({"LAN"}, <<[c \in {"LAN"} |-> Key(<<"C">>)]>>)),
          File("TAD_SPM M1_11.03.2026.xlsx",
               DataFrame({"PAST DUE"}, <<[c \in {"PAST DUE"} |-> Num(300, FALSE)]>>)),
          \* transactions that have a refreshed column next to PAST DUE
          File("TAD_SPM M1_11.03.2026.xlsx",
               DataFrame(TodayColumns \cup {"DPD"},
                         <<[c \in TodayColumns \cup {"DPD"} |->
                               IF c = "DPD" THEN Num(45, FALSE)
                               ELSE TRow(<<"A">>, Num(300, FALSE), NA)[c]]>>)),
          File("TAD 11.03.2026.xlsx",
               DataFrame(TodayColumns, <<TRow(<<"C">>, Num(300, FALSE), NA)>>))}

DailyMasterColumns == {"LAN", "DATE REFERRED", "OLDEST DUE DATE"}

MRow(chars, referred, oldest) ==
    [c \in DailyMasterColumns |->
        CASE c = "LAN" -> Key(chars)
          [] c = "DATE REFERRED" -> referred
          [] OTHER -> oldest]

DailyMasterFiles ==
    {File("MASTERLIST 11032026.xlsx", DataFrame(DailyMasterColumns, rows)) :
        rows \in {<<>>,
                  <<MRow(<<"C">>, Date(2026, 11, 3), Num(45322, FALSE))>>,
                  <<MRow(<<"C">>, Date(2024, 1, 15), Num(45351, FALSE)),
                    MRow(<<"B">>, Txt("00/00/00"), NA)>>,
                  <<MRow(<<"C">>, IsoDate(2024, 1, 15), Num(45351, FALSE)),
                    MRow(<<"B", " ">>, Date(2024, 1, 15), Num(45322, FALSE))>>}}
    \cup {File("MASTERLIST 11032026.xlsx",
               DataFrame({"LAN"}, <<[c \in {"LAN"} |-> Key(<<"C">>)]>>)),
          File("MASTERLIST 11032026.xlsx",
               DataFrame({"DATE REFERRED"},
                         <<[c \in {"DATE REFERRED"} |-> Date(2024, 1, 15)]>>)),
          File("MASTERLIST.xlsx",
               DataFrame(DailyMasterColumns,
                         <<MRow(<<"C">>, Date(2024, 1, 15), Num(45322, FALSE))>>))}

DailyUploaderFiles(key) ==
    CASE key = "yesterday" -> YesterdayFiles
      [] key = "today_tad" -> TodayFiles
      [] key = "masterlist" -> DailyMasterFiles

----------------------------------------------------------------------------
(* The daily page as a state machine: every action is one run of the page's script *)

\* The user puts a file in one of the three uploaders (each uploader is filled once in a
\* session; replacing a file reaches the states that uploading it first reaches)
DailyUpload ==
    /\ page = "daily"
    /\ \E key \in {"yesterday", "today_tad", "masterlist"} \ DOMAIN uploaded :
       \E f \in DailyUploaderFiles(key) :
       \E run \in {daily_script(session_state, Put(uploaded, key, f), FALSE, today)} :
          /\ uploaded' = Put(uploaded, key, f)
          /\ session_state' = run.ss
          /\ screen' = run.screen
    /\ UNCHANGED <<page, today>>

\* The user presses "Process Daily Updates", which the page draws only inside
\* "if masterlist_file:"
DailyProcessButton ==
    /\ page = "daily"
    /\ "masterlist" \in DOMAIN uploaded
    /\ \E run \in {daily_script(session_state, uploaded, TRUE, today)} :
          /\ session_state' = run.ss
          /\ screen' = run.screen
    /\ UNCHANGED <<page, uploaded, today>>

InitDaily ==
    /\ page = "daily"
    /\ uploaded = NoUploads
    /\ session_state = EmptySession
    /\ today \in RunDates
    /\ screen = BlankScreen

NextDaily == DailyUpload \/ DailyProcessButton

SpecDaily == InitDaily /\ [][NextDaily]_vars

----------------------------------------------------------------------------
(* Header alignment (src/src/utils/header_alignment.py) and the Header        *)
(* Alignment page (src/src/pages/4_*_Header_Alignment.py).  The order of the  *)
(* columns matters here, so a table is [columns |-> sequence of names,        *)
(* rows |-> sequence of rows, each a sequence of cells in column order].      *)

\* The list as Python reads it: "CH CODE" "NAME", without a comma between them, is the
\* one string "CH CODENAME"
STANDARD_HEADERS ==
    <<"LAN", "CH CODE" \o "NAME", "CTL4", "PAST DUE", "PAYOFF AMOUNT", "PRINCIPAL", "LPC",
      "ADA SHORTAGE", "EMAIL", "MOBILE_ALS", "MOBILE_ALFES", "PRIMARY_NO_ALS",
      "BUS_NO_ALS", "LANDLINE_NO_ALS", "DATE REFERRED", "UNIT", "DPD">>

\* The dict in insertion order: <<standard column, possible input column names>>
ALIGNMENT_MAP ==
    << <<"LAN", <<"LAN", "ACCOUNT NUMBER", "ACCTNUM">> >>,
       <<"CH CODE", <<"LAN", "ch code">> >>,
       <<"NAME", <<"NAME", "DEBTOR NAME", "BORROWER NAME">> >>,
       <<"CTL4", <<"CTL4">> >>,
       <<"PAST DUE", <<"PAST DUE", "OVERDUE AMOUNT">> >>,
       <<"PAYOFF AMOUNT", <<"PAYOFF AMOUNT", "PAYOFF AMT">> >>,
       <<"PRINCIPAL", <<"PRINCIPAL", "PRINCIPAL AMOUNT">> >>,
       <<"LPC", <<"LPC", "LOAN PRINCIPAL CONTRACTED">> >>,
       <<"ADA SHORTAGE", <<"ADA SHORTAGE", "ADA SHORT">> >>,
       <<"EMAIL", <<"EMAIL", "EMAIL_ALS", "BORROWER EMAIL">> >>,
       <<"MOBILE_ALS", <<"MOBILE_ALS", "MOBILE NO ALS", "MOBILE NUMBER">> >>,
       <<"MOBILE_ALFES", <<"MOBILE_ALFES", "MOBILE NO ALFES">> >>,
       <<"PRIMARY_NO_ALS", <<"PRIMARY_NO_ALS", "PRIMARY NO">> >>,
       <<"BUS_NO_ALS", <<"BUS_NO_ALS", "BUSINESS NO">> >>,
       <<"LANDLINE_NO_ALS", <<"LANDLINE_NO_ALS", "LANDLINE NO ALFES", "LANDLINE">> >>,
       <<"DATE REFERRED", <<"DATE REFERRED", "REFERRAL DATE">> >>,
       <<"UNIT", <<"UNIT", "SHORT DESCRIPTION", "UNIT DESCRIPTION">> >>,
       <<"DPD", <<"DPD", "DAYS PAST DUE">> >> >>

\* mapping.get(standard_col, [])
mapping_get(standard_col) ==
    IF \E i \in 1..Len(ALIGNMENT_MAP) : ALIGNMENT_MAP[i][1] = standard_col
    THEN ALIGNMENT_MAP[CHOOSE i \in 1..Len(ALIGNMENT_MAP) :
                           ALIGNMENT_MAP[i][1] = standard_col][2]
    ELSE <<>>

\* normalize_column_names(df)
normalize_column_names(df) ==
    [df EXCEPT !.columns = [j \in 1..Len(df.columns) |-> upper_name(df.columns[j])]]

\* find_column_in_dataframe(df, possible_names): the first column of df, in df's column
\* order, whose name is one of the possible names; the empty set for None
find_column_in_dataframe(df, possible_names) ==
    LET normalized_possible == {upper_name(possible_names[i]) :
                                   i \in 1..Len(possible_names)}
        hits == {j \in 1..Len(df.columns) : upper_name(df.columns[j]) \in normalized_possible}
    IN IF hits = {} THEN {}
       ELSE {df.columns[CHOOSE j \in hits : \A h \in hits : j <= h]}

\* The format pd.to_datetime settles on for a sequence of values
infer_format_of(cells) ==
    LET idx == {i \in 1..Len(cells) : cells[i] # NA /\ cells[i] # EmptyStr}
    IN IF idx = {} THEN "any"
       ELSE LET first == cells[CHOOSE i \in idx : \A j \in idx : i <= j]
            IN IF IsDate(first) THEN first.fmt ELSE "any"

\* format_date_column(df, column_name) for a column at position p: m/dd/yyyy, and ''
\* for what is no date
format_date_column(df, p) ==
    LET cells == [i \in 1..Len(df.rows) |-> df.rows[i][p]]
        fmt == infer_format_of(cells)
    IN [df EXCEPT !.rows = [i \in 1..Len(df.rows) |->
            [df.rows[i] EXCEPT ![p] =
                IF IsDate(@) /\ fmt \in {"any", @.fmt} THEN [@ EXCEPT !.fmt = "m/dd/yyyy"]
                ELSE EmptyStr]]]

\* align_headers(df) with the default mapping.  raised is TRUE when the assignment
\* aligned_df[standard_col] = df[input_col] raises because input_col names several
\* columns of df.  The output frame gets its rows from the first column that is found:
\* the columns filled with "" before it hold NaN, and no column found leaves no row.
align_headers(df0) ==
    LET df == normalize_column_names(df0)
        n == Len(STANDARD_HEADERS)
        input_col(i) == find_column_in_dataframe(df, mapping_get(STANDARD_HEADERS[i]))
        found == {i \in 1..n : input_col(i) # {}}
        positions(i) == {j \in 1..Len(df.columns) : df.columns[j] \in input_col(i)}
        first_found == CHOOSE i \in found : \A h \in found : i <= h
        value(i, r) ==
            IF i \in found THEN df.rows[r][CHOOSE j \in positions(i) : TRUE]
            ELSE IF i < first_found THEN NA ELSE EmptyStr
        date_referred == CHOOSE i \in 1..n : STANDARD_HEADERS[i] = "DATE REFERRED"
    IN IF \E i \in found : Cardinality(positions(i)) > 1
       THEN [raised |-> TRUE]
       ELSE [raised |-> FALSE,
             df |-> format_date_column(
                        [columns |-> STANDARD_HEADERS,
                         rows |-> IF found = {} THEN <<>>
                                  ELSE [r \in 1..Len(df.rows) |->
                                           [i \in 1..n |-> value(i, r)]]],
                        date_referred)]

\* format_date_referred(df) of the page: it formats a column named "DATE REFFERED"
format_date_referred(df) ==
    IF \E p \in 1..Len(df.columns) : df.columns[p] = "DATE REFFERED"
    THEN LET p == CHOOSE q \in 1..Len(df.columns) : df.columns[q] = "DATE REFFERED"
             fmt == infer_format_of([i \in 1..Len(df.rows) |-> df.rows[i][p]])
         IN [df EXCEPT !.rows = [i \in 1..Len(df.rows) |->
                [df.rows[i] EXCEPT ![p] =
                    IF IsDate(@) /\ fmt \in {"any", @.fmt}
                    THEN [@ EXCEPT !.fmt = "mm/Month/yyyy"] ELSE EmptyStr]]]
    ELSE df

None == [k |-> "none"]

\* The try block of one file: the aligned table and its download name, or nothing when
\* align_headers raises (except Exception: st.error)
process_one(ss, key, prefix, run_date, aligned) ==
    IF ss[key] = None \/ aligned.raised THEN <<>>
    ELSE << [df |-> format_date_referred(aligned.df),
             filename |-> <<prefix, run_date>>] >>

\* Processed files that are dropped as soon as one of the two files fails
processed_of_both_or_none(for_upload, for_update) ==
    IF for_upload = <<>> \/ for_update = <<>> THEN <<>>
    ELSE [t \in {"FOR_UPLOAD", "FOR_UPDATE"} |->
             IF t = "FOR_UPLOAD" THEN for_upload[1] ELSE for_update[1]]

\* processed_files as the two try blocks leave it
processed_of(for_upload, for_update) ==
    [t \in (IF for_upload = <<>> THEN {} ELSE {"FOR_UPLOAD"})
           \cup (IF for_update = <<>> THEN {} ELSE {"FOR_UPDATE"}) |->
        IF t = "FOR_UPLOAD" THEN for_upload[1] ELSE for_update[1]]

\* What the page shows below the tool: the processed files of the session when
\* processing_complete is true
AlignScreen(status, ss) ==
    [page |-> "alignment", status |-> status,
     offered |-> IF ss["processing_complete"] /\ "processed_files" \in DOMAIN ss
                 THEN ss["processed_files"] ELSE <<>>]

\* Step 2 of render_header_alignment_tool and the page's preview and download steps
align_step(ss, processed_files, failed) ==
    IF ss["uploaded_for_upload"] = None /\ ss["uploaded_for_update"] = None
    THEN [ss |-> ss, screen |-> AlignScreen("info_upload", ss)]
    ELSE IF DOMAIN processed_files = {}
    THEN [ss |-> ss, screen |-> AlignScreen("warning_none_processed", ss)]
    ELSE [ss |-> Put(Put(ss, "processed_files", processed_files),
                     "processing_complete", TRUE),
          screen |-> AlignScreen(IF failed THEN "error_one_file" ELSE "aligned",
                                 Put(Put(ss, "processed_files", processed_files),
                                     "processing_complete", TRUE))]

\* The aligned table of the file a session key holds (not evaluated for None)
aligned_of(ss, key) ==
    IF ss[key] = None THEN [raised |-> FALSE] ELSE align_headers(ss[key].df)

\* The files the session holds, processed
align_files(ss, run_date) ==
    align_step(ss,
               processed_of(
                   process_one(ss, "uploaded_for_upload", "BPI_AUTOCURING_FORUPLOADS_",
                               run_date, aligned_of(ss, "uploaded_for_upload")),
                   process_one(ss, "uploaded_for_update", "BPI_AUTOCURING_FORUPDATES_",
                               run_date, aligned_of(ss, "uploaded_for_update"))),
               aligned_of(ss, "uploaded_for_upload").raised
                   \/ aligned_of(ss, "uploaded_for_update").raised)

\* The session keys the page creates when they are missing, and the files of the two
\* uploaders stored in the session
align_session(ss, up) ==
    [x \in DOMAIN ss \cup {"processing_complete", "uploaded_for_upload",
                           "uploaded_for_update"} |->
        CASE x = "uploaded_for_upload" /\ "for_upload_uploader" \in DOMAIN up ->
                 up["for_upload_uploader"]
          [] x = "uploaded_for_update" /\ "for_update_uploader" \in DOMAIN up ->
                 up["for_update_uploader"]
          [] x \in DOMAIN ss -> ss[x]
          [] x = "processing_complete" -> FALSE
          [] OTHER -> None]

\* One run of the page's script
alignment_script(ss, up, run_date) == align_files(align_session(ss, up), run_date)

----------------------------------------------------------------------------
(* The files a user uploads on the Header Alignment page *)

MaxAlignColumns == 2
MaxAlignRows == 1

AlignNames == {"LAN", " lan", "ACCTNUM", "NAME", "Date Referred", "REMARKS"}

\* The cell of a row under a column: it names the column it comes from, or is a date
AlignCell(name, r) ==
    IF name = "Date Referred" THEN (IF r = 1 THEN IsoDate(2024, 1, 5) ELSE Date(2024, 1, 5))
    ELSE Txt(name)

AlignTable(columns, n) ==
    [columns |-> columns,
     rows |-> [r \in 1..n |-> [j \in 1..Len(columns) |-> AlignCell(columns[j], r)]]]

AlignFiles(key) ==
    IF key = "for_upload_uploader"
    THEN {File("FOR UPLOAD 110326.xlsx", AlignTable(columns, n)) :
             columns \in SeqUpTo(AlignNames, MaxAlignColumns), n \in 0..MaxAlignRows}
    ELSE {File("FOR UPDATE 110326.xlsx", AlignTable(columns, 1)) :
             columns \in {<<"LAN", "NAME">>, <<"REMARKS">>, <<"LAN", " lan">>}}

----------------------------------------------------------------------------
(* The Header Alignment page as a state machine *)

\* The user puts a file in one of the two uploaders, and the script runs
AlignUpload ==
    /\ page = "alignment"
    /\ \E key \in {"for_upload_uploader", "for_update_uploader"} \ DOMAIN uploaded :
       \E f \in AlignFiles(key) :
       \E run \in {alignment_script(session_state, Put(uploaded, key, f), today)} :
          /\ uploaded' = Put(uploaded, key, f)
          /\ session_state' = run.ss
          /\ screen' = run.screen
    /\ UNCHANGED <<page, today>>

InitAlign ==
    /\ page = "alignment"
    /\ uploaded = NoUploads
    /\ session_state = EmptySession
    /\ today \in RunDates
    /\ screen = BlankScreen

NextAlign == AlignUpload

SpecAlign == InitAlign /\ [][NextAlign]_vars

----------------------------------------------------------------------------
(* Claims about the endorsement pages, checked under SpecEndorsement *)

SameDay(a, b) == IsDate(a) /\ IsDate(b) /\ a.y = b.y /\ a.m = b.m /\ a.d = b.d

Labels == {Txt("REENDO"), Txt("NEW ENDO")}

\* The rows of the uploaded masterlist file, as uploaded
UploadedMaster == uploaded["masterlist"].df

\* The uploaded masterlist entries for a stripped key, in file order
RawEntries(lan) ==
    IF "LAN" \in UploadedMaster.columns
    THEN SelectSeq(UploadedMaster.rows, LAMBDA m : strip_key(m["LAN"]) = lan)
    ELSE <<>>

WeeklyComplete == page = "weekly" /\ screen.page = "weekly" /\ screen.status = "complete"
MonthlyClassified ==
    page = "monthly" /\ screen.page = "monthly" /\ screen.status = "warning_upload_both"

----------------------------------------------------------------------------
(* Claims about the daily page, checked under SpecDaily *)

\* The script run that just ended ran the button's body to its end
DailyProcessed == page = "daily" /\ screen.page = "daily" /\ screen.status = "processed"

YesterdayKeys == LANs(session_state["yesterday_df"])
TodayKeys == LANs(session_state["today_df"])

\* The row of a table for a key
RowOf(df, lan) == df.rows[CHOOSE i \in 1..Len(df.rows) : df.rows[i]["LAN"] = lan]

\* The normalized past due today's transactions hold for a key
PastDueToday(lan) ==
    clean_numeric_cell(RowOf(session_state["today_df"], lan)["PAST DUE"]).v

\* The keys whose past due in today's transactions is positive
TodayPositiveKeys == {k \in TodayKeys : PastDueToday(k) > 0}

FinalKeys == LANs(session_state["final_active_list"])
PulloutKeys == LANs(session_state["pullout_accounts"])
ForUpdateKeys == LANs(session_state["for_update_accounts"])
ForUploadKeys == LANs(session_state["for_upload_accounts"])
ReviveKeys == LANs(session_state["revive_display"])

\* C3: no completed run emits a record classified REENDO whose date_referred equals its
\* endo_date, in the weekly flow and for the revived accounts of the daily flow.
C3_NoReendoWithRunDate ==
    /\ WeeklyComplete =>
          \A i \in 1..Len(screen.final_active.rows) :
              LET r == screen.final_active.rows[i]
              IN r["CLASSIFICATION"] = Txt("REENDO") =>
                     ~SameDay(r["DATE REFERRED"], r["ENDO DATE"])
    /\ DailyProcessed =>
          \A i \in 1..Len(session_state["final_active_list"].rows) :
              LET r == session_state["final_active_list"].rows[i]
              IN r["CLASSIFICATION"] = Txt("REENDO") =>
                     ~SameDay(r["DATE REFERRED"], r["ENDO DATE"])

\* C4: after the refresh, an account of yesterday's active set whose past due in today's
\* transactions is zero is in pullout_accounts and not in final_active_list, and one
\* whose past due is positive is in final_active_list and not in pullout_accounts.
C4_PulloutRule ==
    DailyProcessed =>
        \A k \in YesterdayKeys \cap TodayKeys :
            /\ PastDueToday(k) = 0 => k \in PulloutKeys /\ k \notin FinalKeys
            /\ PastDueToday(k) > 0 => k \in FinalKeys /\ k \notin PulloutKeys

\* Scenario D: a key with past due 500 yesterday and 0 today is pulled out, while
\* another key of yesterday with a positive past due today stays active
C4_Witness ==
    /\ DailyProcessed
    /\ \E k \in YesterdayKeys \cap TodayKeys :
          /\ RowOf(session_state["yesterday_df"], k)["PAST DUE"].v = 500
          /\ PastDueToday(k) = 0
          /\ k \in PulloutKeys
    /\ \E k \in YesterdayKeys \cap TodayKeys : PastDueToday(k) > 0 /\ k \in FinalKeys

\* C5: the revive key set is the keys of today's transactions with positive past due
\* minus all keys of yesterday's active set; every revived account is in
\* final_active_list once, classified REENDO with endo_date = the run date.
C5_ReviveRule ==
    DailyProcessed =>
        /\ ReviveKeys = TodayPositiveKeys \ YesterdayKeys
        /\ \A k \in TodayPositiveKeys \ YesterdayKeys :
              LET rows == SelectSeq(session_state["final_active_list"].rows,
                                    LAMBDA r : r["LAN"] = k)
              IN /\ Len(rows) = 1
                 /\ rows[1]["CLASSIFICATION"] = Txt("REENDO")
                 /\ rows[1]["ENDO DATE"] = strftime_mdy(today)

\* Scenario E, next to a key that yesterday's list holds with past due 0 and that is
\* therefore not revived although today's past due is positive
C5_Witness ==
    /\ DailyProcessed
    /\ ReviveKeys # {}
    /\ \E k \in YesterdayKeys \cap TodayPositiveKeys :
          /\ RowOf(session_state["yesterday_df"], k)["PAST DUE"].v = 0
          /\ k \notin ReviveKeys

\* C6: pullout_accounts, for_update_accounts and the revived accounts are pairwise
\* disjoint by key, final_active_list's keys are for_update_accounts' keys and the
\* revived keys together, and no pullout key is in final_active_list.
C6_PartitionConsistency ==
    DailyProcessed =>
        /\ PulloutKeys \cap ForUpdateKeys = {}
        /\ PulloutKeys \cap ReviveKeys = {}
        /\ ForUpdateKeys \cap ReviveKeys = {}
        /\ FinalKeys = ForUpdateKeys \cup ReviveKeys
        /\ PulloutKeys \cap FinalKeys = {}

\* A completed run with a pulled out, a kept and a revived account
C6_Witness ==
    DailyProcessed /\ PulloutKeys # {} /\ ForUpdateKeys # {} /\ ReviveKeys # {}

\* C7 as stated: for_upload_accounts holds exactly the keys of today's transactions that
\* are not in yesterday's list, whatever their past due.
C7_ForUploadIsEveryNewKey ==
    DailyProcessed => ForUploadKeys = TodayKeys \ YesterdayKeys

\* C7: for_upload_accounts holds the rows of final_active_list whose key is not in
\* yesterday's list, which are the revived accounts (the new keys with a positive past
\* due); the FOR UPLOAD download holds the same keys.
C7_ForUploadIsTheRevived ==
    DailyProcessed =>
        /\ ForUploadKeys = TodayPositiveKeys \ YesterdayKeys
        /\ ForUploadKeys = ReviveKeys
        /\ session_state["for_upload_accounts"].rows
               = SelectSeq(session_state["final_active_list"].rows,
                           LAMBDA r : r["LAN"] \notin YesterdayKeys)
        /\ LANs(screen.downloads.for_upload) = ForUploadKeys

\* A completed run whose transactions hold a new key with past due 0 next to a revived
\* one: only the revived one is for upload
C7_Witness ==
    /\ DailyProcessed
    /\ ForUploadKeys # {}
    /\ \E k \in TodayKeys \ YesterdayKeys : PastDueToday(k) = 0 /\ k \notin ForUploadKeys

\* The calendar date of the spreadsheet serials the model's masterlists hold (epoch
\* 1899-12-30)
SerialDate(n) ==
    CASE n = 45322 -> Date(2024, 1, 31)
      [] n = 45351 -> Date(2024, 2, 29)

Later(a, b) == IF DateLE(a, b) THEN b ELSE a

\* The revived keys for which today's transactions hold a date and the session's
\* masterlist a serial as oldest_due_date
BothSources ==
    IF "masterlist_df" \in DOMAIN session_state
       /\ {"LAN", "OLDEST DUE DATE"} \subseteq session_state["masterlist_df"].columns
    THEN {k \in ReviveKeys \cap LANs(session_state["masterlist_df"]) :
             /\ IsDate(RowOf(session_state["today_df"], k)["OLDEST DUE DATE"])
             /\ RowOf(session_state["masterlist_df"], k)["OLDEST DUE DATE"].k = "num"}
    ELSE {}

----------------------------------------------------------------------------
(* Claims about the due dates and about header alignment *)

\* C8: for every valid oldest_due_date D of an emitted record, due_date is the day of
\* the month of D and next_due_date is D one calendar month later, the day clamped to
\* the length of the target month (weekly flow: due_date is the integer as text).
C8_DueDateDerivation ==
    WeeklyComplete =>
        \A i \in 1..Len(screen.final_active.rows) :
            LET r == screen.final_active.rows[i]
                D == r["OLDEST DUE DATE"]
            IN IsDate(D) =>
                  /\ r["DUE DATE"] = Txt(ToString(D.d))
                  /\ SameDay(r["NEXT DUE DATE"], DateOffset_months_1(D))

\* The canonical fields: the keys of the synonym table, in its order
CanonicalFields == [i \in 1..Len(ALIGNMENT_MAP) |-> ALIGNMENT_MAP[i][1]]

\* C10: for every input table align_headers returns a table whose column sequence is
\* the canonical header sequence, and it does not fail: every file the session holds
\* has its aligned table among the processed files.
C10_AlignmentCompleteness ==
    (page = "alignment" /\ screen.page = "alignment") =>
        /\ \A t \in {"FOR_UPLOAD", "FOR_UPDATE"} :
              LET key == IF t = "FOR_UPLOAD" THEN "uploaded_for_upload"
                         ELSE "uploaded_for_update"
              IN session_state[key] # None =>
                    /\ "processed_files" \in DOMAIN session_state
                    /\ t \in DOMAIN session_state["processed_files"]
                    /\ session_state["processed_files"][t].df.columns = CanonicalFields

----------------------------------------------------------------------------
(* The copy rule of the header alignment *)

\* The session key that holds the input of a processed file
AlignKeyOf(t) == IF t = "FOR_UPLOAD" THEN "uploaded_for_upload" ELSE "uploaded_for_update"

\* The processed files of the session
ProcessedFiles ==
    IF page = "alignment" /\ "processed_files" \in DOMAIN session_state
    THEN session_state["processed_files"] ELSE <<>>

\* The positions of the input columns whose trimmed, uppercased name is a synonym of a
\* canonical field
SynonymPositions(df, field) ==
    {j \in 1..Len(df.columns) :
        \E s \in Range(mapping_get(field)) : upper_name(df.columns[j]) = upper_name(s)}

\* The values of the column at position p, top to bottom
ColumnAt(df, p) == [r \in 1..Len(df.rows) |-> df.rows[r][p]]

\* The positions of the columns of df that are named name
PositionsOf(df, name) == {p \in 1..Len(df.columns) : df.columns[p] = name}

\* The copy rule for one canonical field of one aligned table: the output has the
\* field's column; it holds the values of a matching input column (DATE REFERRED is
\* compared by calendar day, its text being reformatted) or "" on every row
CopyRule(input, output, field) ==
    /\ PositionsOf(output, field) # {}
    /\ \A p \in PositionsOf(output, field) :
          IF SynonymPositions(input, field) # {}
          THEN \E j \in SynonymPositions(input, field) :
                  /\ Len(output.rows) = Len(input.rows)
                  /\ \A r \in 1..Len(input.rows) :
                        \/ output.rows[r][p] = input.rows[r][j]
                        \/ /\ field = "DATE REFERRED"
                           /\ SameDay(output.rows[r][p], input.rows[r][j])
          ELSE \A r \in 1..Len(output.rows) : output.rows[r][p] = EmptyStr

\* C11: for each canonical field of the synonym table the aligned table's column of
\* that field holds the values of the input column that matches one of the field's
\* synonyms, and the empty string on every row when no input column matches; an input
\* LAN column fills both LAN and CH CODE.
C11_CopyRule ==
    \A t \in DOMAIN ProcessedFiles :
        \A i \in 1..Len(CanonicalFields) :
            CopyRule(session_state[AlignKeyOf(t)].df, ProcessedFiles[t].df,
                     CanonicalFields[i])

----------------------------------------------------------------------------
(* Sentinel values of the masterlist's DATE REFERRED *)

\* The stored values that stand for "no date": missing, empty and "00/00/00"
IsSentinel(c) == c = NA \/ c = EmptyStr \/ c = Txt("00/00/00")

WeeklyHalted == page = "weekly" /\ screen.page = "weekly" /\ screen.status = "halted"

\* The rows of a table whose key is lan
RowsOf(df, lan) == SelectSeq(df.rows, LAMBDA r : r["LAN"] = lan)

\* The keys of the uploaded transactions whose masterlist entry (the last of the key)
\* stores a sentinel as its DATE REFERRED
SentinelKeys ==
    {k \in {strip_key(uploaded["tad"].df.rows[j]["LAN"]) :
                j \in 1..Len(uploaded["tad"].df.rows)} :
        /\ RawEntries(k) # <<>>
        /\ "DATE REFERRED" \in UploadedMaster.columns
        /\ IsSentinel(RawEntries(k)[Len(RawEntries(k))]["DATE REFERRED"])}

\* C12: a REENDO record whose masterlist entry stores a sentinel as its date_referred
\* gets the run date as its date_referred: in a completed weekly run its row carries
\* the run date, and in a halted one it is among the records the validation shows
\* (REENDO with date_referred = endo_date = the run date).
C12_SentinelFallsBack ==
    /\ WeeklyComplete =>
          \A k \in SentinelKeys :
              \A i \in 1..Len(RowsOf(screen.final_active, k)) :
                  RowsOf(screen.final_active, k)[i]["DATE REFERRED"] = strftime_mdy(today)
    /\ WeeklyHalted =>
          \A k \in SentinelKeys :
              /\ RowsOf(screen.suspicious, k) # <<>>
              /\ \A i \in 1..Len(RowsOf(screen.suspicious, k)) :
                    RowsOf(screen.suspicious, k)[i]["DATE REFERRED"] = strftime_mdy(today)

----------------------------------------------------------------------------
(* A sequence of weekly runs: the consolidated masterlist a run offers is  *)
(* downloaded and is the masterlist of the next run, one week later.       *)

\* The number of weekly runs of a sequence
MaxRuns == 3

\* The date of the first run of a sequence (a Monday)
FirstRunDate == Date(2024, 2, 5)

\* to_excel_bytes(df) read back by read_file: an empty string is written as an empty
\* cell, which is read as NaN; the other cells are text and come back as they are
excel_round_trip(df) ==
    [df EXCEPT !.rows = [i \in 1..Len(df.rows) |->
        [c \in df.columns |-> IF df.rows[i][c] = EmptyStr THEN NA ELSE df.rows[i][c]]]]

\* The files of the first session of a sequence
RunTadFiles ==
    {File("TAD.xlsx", DataFrame({"LAN"}, rows)) :
        rows \in {<<("LAN" :> Key(<<" ", "A">>))>>,
                  <<("LAN" :> Key(<<"B">>))>>,
                  <<("LAN" :> Key(<<" ", "A">>)), ("LAN" :> Key(<<"B">>))>>}}

RunEndorsementFiles ==
    {File("M1.xlsx",
          DataFrame({"ACCTNUM", "Oldest_Due_date"},
                    << ("ACCTNUM" :> Key(<<"A">>))
                          @@ ("Oldest_Due_date" :> Date(2024, 1, 31)) >>))}

RunMasterFiles ==
    {File("MASTERLIST.xlsx", DataFrame({"LAN", "DATE REFERRED"}, rows)) :
        rows \in {<<>>,
                  <<("LAN" :> Key(<<"B", " ">>)) @@ ("DATE REFERRED" :> Date(2024, 1, 15))>>,
                  <<("LAN" :> Key(<<"C">>)) @@ ("DATE REFERRED" :> IsoDate(2024, 1, 15))>>,
                  <<("LAN" :> Key(<<"B">>)) @@ ("DATE REFERRED" :> Txt("00/00/00"))>>}}

RunFiles(key) ==
    CASE key = "tad" -> RunTadFiles
      [] key = "endorsement" -> RunEndorsementFiles
      [] key = "masterlist" -> RunMasterFiles

\* The user puts a file in an uploader of the weekly page; the script reruns
WeeklyRunUpload ==
    /\ page = "weekly"
    /\ \E key \in {"tad", "endorsement", "masterlist"} \ DOMAIN uploaded :
       \E f \in RunFiles(key) :
          /\ uploaded' = Put(uploaded, key, f)
          /\ session_state' = weekly_load(session_state, uploaded')
          /\ screen' = weekly_script(session_state', today)
    /\ UNCHANGED <<page, today>>

\* A week after a completed run the user opens a new session and uploads the
\* consolidated masterlist downloaded from that run; the script runs on it
WeeklyNextRun ==
    /\ page = "weekly"
    /\ screen.page = "weekly" /\ screen.status = "complete"
    /\ today.d + 7 <= FirstRunDate.d + 7 * (MaxRuns - 1)
    /\ today' = [today EXCEPT !.d = @ + 7]
    /\ uploaded' = Put(NoUploads, "masterlist",
                       File("Masterlist.xlsx",
                            excel_round_trip(screen.consolidated_masterlist)))
    /\ session_state' = weekly_load(EmptySession, uploaded')
    /\ screen' = weekly_script(session_state', today')
    /\ UNCHANGED page

InitWeeklyRuns ==
    /\ page = "weekly"
    /\ uploaded = NoUploads
    /\ session_state = EmptySession
    /\ today = FirstRunDate
    /\ screen = BlankScreen

NextWeeklyRuns == WeeklyRunUpload \/ WeeklyNextRun

SpecWeeklyRuns == InitWeeklyRuns /\ [][NextWeeklyRuns]_vars

----------------------------------------------------------------------------
(* Claims about sequences of weekly runs, checked under SpecWeeklyRuns *)

\* The entries an earlier run of the sequence appended for a key to the masterlist the
\* session uploaded: they carry the ENDO DATE of that run
AppendedBefore(lan) ==
    IF "ENDO DATE" \in UploadedMaster.columns
    THEN SelectSeq(RawEntries(lan), LAMBDA m : IsDate(m["ENDO DATE"]))
    ELSE <<>>

\* The entries the completed run appended to its consolidated masterlist: the rows
\* that follow those of the masterlist the session loaded
AppendedNow ==
    SubSeq(screen.consolidated_masterlist.rows,
           Len(session_state["masterlist_df"].rows) + 1,
           Len(screen.consolidated_masterlist.rows))

\* C13: date_referred is sticky over a sequence of weekly runs.  In every completed
\* run, a record first referred in this run (NEW ENDO) has date_referred = the run
\* date; a record an earlier run of the sequence referred with a valid date keeps that
\* date; and the entry appended for each record to the consolidated masterlist carries
\* the record's date_referred, so that the next run finds it.
C13_StickyDateReferred ==
    WeeklyComplete =>
        /\ Len(AppendedNow) = Len(screen.final_active.rows)
        /\ \A i \in 1..Len(screen.final_active.rows) :
              LET r == screen.final_active.rows[i]
                  before == AppendedBefore(r["LAN"])
              IN /\ r["CLASSIFICATION"] = Txt("NEW ENDO") => SameDay(r["DATE REFERRED"], today)
                 /\ \A j \in 1..Len(before) :
                       IsDate(before[j]["DATE REFERRED"]) =>
                           SameDay(r["DATE REFERRED"], before[j]["DATE REFERRED"])
                 /\ IsDate(r["DATE REFERRED"]) =>
                       /\ AppendedNow[i]["LAN"] = r["LAN"]
                       /\ SameDay(AppendedNow[i]["DATE REFERRED"], r["DATE REFERRED"])

----------------------------------------------------------------------------
(* The consolidated masterlist of one weekly run, checked under SpecEndorsement *)

\* The account keys of the rows of a table, top to bottom
KeySeq(rows) == [i \in 1..Len(rows) |-> strip_key(rows[i]["LAN"])]

\* C14: the consolidated masterlist of a completed weekly run holds every record of
\* the masterlist the run was given, in order, several entries of one account key
\* included, followed by every record of the active list; its length is the given
\* masterlist's length plus the active list's length.
C14_MasterlistAppendOnly ==
    WeeklyComplete =>
        /\ Len(screen.consolidated_masterlist.rows)
               = Len(UploadedMaster.rows) + Len(screen.final_active.rows)
        /\ KeySeq(screen.consolidated_masterlist.rows)
               = KeySeq(UploadedMaster.rows) \o KeySeq(screen.final_active.rows)

----------------------------------------------------------------------------
(* The merge of the transaction table with the endorsement table *)

\* The LAN cells of the rows of a table, top to bottom, as they are
LanSeq(rows) == [i \in 1..Len(rows) |-> rows[i]["LAN"]]

\* C15: the merge on the account key keeps the primary table: each record of the
\* transaction table the page merges (weekly: the loaded TAD table; monthly: the
\* aligned TAD table) appears exactly once in the merged output, in order, and no
\* other record appears.
C15_LeftJoinKeepsPrimary ==
    /\ WeeklyComplete =>
          LanSeq(screen.final_active.rows) = LanSeq(session_state["tad_df"].rows)
    /\ MonthlyClassified =>
          LanSeq(screen.merged_df.rows) = LanSeq(session_state["aligned_tad"].rows)

----------------------------------------------------------------------------
(* Fill-if-empty precedence of the weekly page *)

\* The endorsement record of a key in the loaded endorsement table (at most one)
EndorsementOf(lan) == RowsOf(session_state["endorsement_df"], lan)

\* The value the canonical field has of its own after the merge: the endorsement
\* table's column of that name (no transaction column maps to these fields)
OwnValue(lan, tgt) ==
    IF tgt \in session_state["endorsement_df"].columns /\ EndorsementOf(lan) # <<>>
    THEN EndorsementOf(lan)[1][tgt] ELSE NA

\* The value of the endorsement source column for the key
SourceValue(lan, src) ==
    IF EndorsementOf(lan) # <<>> THEN EndorsementOf(lan)[1][src] ELSE NA

\* The emitted cell shows the value: as it is, or as the same calendar day when the
\* field is a date column (which is reformatted, and emptied when it is no date)
Shows(cell, value, tgt) ==
    \/ cell = value
    \/ tgt \in DATE_COLUMNS /\ SameDay(cell, value)
    \/ tgt \in DATE_COLUMNS /\ ~IsDate(value) /\ cell = EmptyStr

\* C16: for every mapped endorsement field and every record of a completed weekly
\* run, the canonical field keeps its own value when that value is present and not
\* empty, and takes the endorsement source value otherwise.
C16_FillIfEmpty ==
    WeeklyComplete =>
        \A i \in 1..Len(screen.final_active.rows) :
            \A n \in 1..Len(endorsement_column_map) :
                LET r == screen.final_active.rows[i]
                    src == endorsement_column_map[n][1]
                    tgt == endorsement_column_map[n][2]
                    own == OwnValue(r["LAN"], tgt)
                IN src \in session_state["endorsement_df"].columns =>
                      IF own # NA /\ own # EmptyStr THEN Shows(r[tgt], own, tgt)
                      ELSE Shows(r[tgt], SourceValue(r["LAN"], src), tgt)

\* A completed weekly run in which one record keeps its own NAME although the
\* endorsement source has another, and one record with no NAME takes the source's
C16_Witness ==
    /\ WeeklyComplete
    /\ \E i, j \in 1..Len(screen.final_active.rows) :
          LET r == screen.final_active.rows[i]
              q == screen.final_active.rows[j]
          IN /\ OwnValue(r["LAN"], "NAME") = Txt("ANA CRUZ")
             /\ SourceValue(r["LAN"], "NAME_ALS") = Txt("ANA")
             /\ r["NAME"] = Txt("ANA CRUZ")
             /\ OwnValue(q["LAN"], "NAME") = NA
             /\ q["NAME"] = Txt("BEN")

----------------------------------------------------------------------------
(* Account keys of the tables a run consumes *)

\* str.upper() on the characters the keys of the model are made of
UpperChar(ch) ==
    CASE ch = "a" -> "A"
      [] ch = "b" -> "B"
      [] ch = "c" -> "C"
      [] OTHER -> ch

\* The normalized form of an account key: trimmed and uppercased
NormalizeKey(c) ==
    IF c.k = "key"
    THEN Key([i \in 1..Len(strip(c.chars)) |-> UpperChar(strip(c.chars)[i])])
    ELSE c

\* The tables of the session a weekly run or a monthly merge consumes
ConsumedTables ==
    IF page = "weekly" THEN {"tad_df", "endorsement_df", "masterlist_df"}
    ELSE {"aligned_tad", "endorsement_df", "masterlist_df"}

\* The column of a consumed table that holds the account key
KeyColumn(df) ==
    IF "LAN" \in df.columns THEN {"LAN"}
    ELSE IF "ACCTNUM" \in df.columns THEN {"ACCTNUM"} ELSE {}

\* C17: every table a run consumes has at most one record per normalized account key
\* (trimmed and uppercased; normalizing twice changes nothing), and its keys are stored
\* normalized.
C17_SnapshotKeyUniqueness ==
    (WeeklyComplete \/ MonthlyClassified) =>
        \A name \in ConsumedTables \cap DOMAIN session_state :
            \A col \in KeyColumn(session_state[name]) :
                LET rows == session_state[name].rows
                IN /\ \A i, j \in 1..Len(rows) :
                          NormalizeKey(rows[i][col]) = NormalizeKey(rows[j][col]) => i = j
                   /\ \A i \in 1..Len(rows) :
                          /\ NormalizeKey(NormalizeKey(rows[i][col]))
                                 = NormalizeKey(rows[i][col])
                          /\ rows[i][col] = NormalizeKey(rows[i][col])

----------------------------------------------------------------------------
(* The daily page when the user replaces a file between two runs *)

\* The files a user puts in an uploader of the daily page, or in place of the file the
\* uploader holds
ReplacementFiles(key) ==
    CASE key = "yesterday" ->
             {File("ACTIVE FILES 110226.xlsx",
                   DataFrame({"PAST DUE"}, <<[c \in {"PAST DUE"} |-> Num(500, FALSE)]>>)),
              File("ACTIVE FILES 110226.xlsx",
                   DataFrame(YesterdayColumns, <<YRow(<<"A">>, 500)>>)),
              File("ACTIVE FILES 110226.xlsx",
                   DataFrame(YesterdayColumns, <<YRow(<<"A">>, 0), YRow(<<"C">>, 500)>>))}
      [] key = "today_tad" ->
             {File("TAD_SPM M1_11.03.2026.xlsx",
                   DataFrame({"PAST DUE"}, <<[c \in {"PAST DUE"} |-> Num(300, FALSE)]>>)),
              File("TAD_SPM M1_11.03.2026.xlsx",
                   DataFrame(TodayColumns,
                             <<TRow(<<"C">>, Num(300, FALSE), Date(2024, 1, 31))>>)),
              File("TAD_SPM M1_11.03.2026.xlsx",
                   DataFrame(TodayColumns,
                             <<TRow(<<"A">>, Num(300, FALSE), Txt("garbage"))>>))}
      [] key = "masterlist" -> DailyMasterFiles

\* The user puts a file in an uploader, empty or not: the script runs again and loads it
\* over the table the session holds
DailyReplace ==
    /\ page = "daily"
    /\ \E key \in {"yesterday", "today_tad", "masterlist"} :
       \E f \in ReplacementFiles(key) :
       \E run \in {daily_script(session_state, Put(uploaded, key, f), FALSE, today)} :
          /\ key \in DOMAIN uploaded => f # uploaded[key]
          /\ uploaded' = Put(uploaded, key, f)
          /\ session_state' = run.ss
          /\ screen' = run.screen
    /\ UNCHANGED <<page, today>>

NextDailyReplace == DailyReplace \/ DailyProcessButton

SpecDailyReplace == InitDaily /\ [][NextDailyReplace]_vars

----------------------------------------------------------------------------
(* C18 *)

OutputPartitions ==
    {"final_active_list", "pullout_accounts", "for_update_accounts", "for_upload_accounts",
     "revive_display"}

\* Both required tables are loaded and one of them has no LAN column
LanAbsent ==
    /\ {"yesterday_df", "today_df"} \subseteq DOMAIN session_state
    /\ \/ "LAN" \notin normalize_columns(session_state["yesterday_df"]).columns
       \/ "LAN" \notin normalize_columns(session_state["today_df"]).columns

\* C18: a press of "Process Daily Updates" when LAN is absent from yesterday's list or
\* from today's transactions stops the run with the reported error, stores none of
\* the five output partitions (the session holds after the run exactly what it held
\* of them before it) and shows no results section
C18_MissingKeyFailure ==
    [][(DailyProcessButton /\ LanAbsent) =>
          /\ screen'.status = "lan_missing"
          /\ screen'.downloads = NoDownloads
          /\ session_state'["processing_complete"] = FALSE
          /\ \A k \in OutputPartitions :
                /\ k \in DOMAIN session_state' <=> k \in DOMAIN session_state
                /\ k \in DOMAIN session_state => session_state'[k] = session_state[k]]_vars

\* A run stopped for the missing LAN column in a session that holds the partitions of an
\* earlier, completed run
C18_Witness ==
    /\ page = "daily"
    /\ screen.status = "lan_missing"
    /\ LanAbsent
    /\ OutputPartitions \subseteq DOMAIN session_state

\* A run stopped for the missing LAN column in a session that never completed a run
C18_FirstRunStopped ==
    /\ page = "daily"
    /\ screen.status = "lan_missing"
    /\ OutputPartitions \cap DOMAIN session_state = {}

----------------------------------------------------------------------------
(* Bad dates in a weekly batch *)

\* The oldest due date the loaded endorsement table has for a key, NaN when it has none
EndorsedOldestDueDate(lan) ==
    LET e == normalize_columns(session_state["endorsement_df"])
    IN IF "OLDEST_DUE_DATE" \in e.columns /\ RowsOf(e, lan) # <<>>
       THEN RowsOf(e, lan)[1]["OLDEST_DUE_DATE"] ELSE NA

\* The emitted records whose oldest due date is a text that is no date
BadDateKeys ==
    {k \in LANs(screen.final_active) :
        EndorsedOldestDueDate(k).k = "txt" /\ EndorsedOldestDueDate(k) # EmptyStr}

\* C19: in a completed weekly run with a record whose oldest_due_date cannot be parsed,
\* that record is emitted with empty due_date, next_due_date and oldest_due_date, and
\* every record with a valid oldest_due_date D is emitted as it is without the bad
\* record: due_date the day of D as a plain integer text, next_due_date D plus one
\* month, oldest_due_date D.
C19_BadDateIsolation ==
    (WeeklyComplete /\ BadDateKeys # {}) =>
        \A i \in 1..Len(screen.final_active.rows) :
            LET r == screen.final_active.rows[i]
                D == EndorsedOldestDueDate(r["LAN"])
            IN /\ r["LAN"] \in BadDateKeys =>
                     /\ r["DUE DATE"] = EmptyStr
                     /\ r["NEXT DUE DATE"] = EmptyStr
                     /\ r["OLDEST DUE DATE"] = EmptyStr
               /\ IsDate(D) =>
                     /\ r["DUE DATE"] = Txt(ToString(D.d))
                     /\ SameDay(r["NEXT DUE DATE"], DateOffset_months_1(D))
                     /\ SameDay(r["OLDEST DUE DATE"], D)

\* The part of C19 about the bad record itself and the dates of the other records
C19_BadRecordIsEmpty ==
    (WeeklyComplete /\ BadDateKeys # {}) =>
        \A i \in 1..Len(screen.final_active.rows) :
            LET r == screen.final_active.rows[i]
                D == EndorsedOldestDueDate(r["LAN"])
            IN /\ r["LAN"] \in BadDateKeys =>
                     /\ r["DUE DATE"] = EmptyStr
                     /\ r["NEXT DUE DATE"] = EmptyStr
                     /\ r["OLDEST DUE DATE"] = EmptyStr
               /\ IsDate(D) =>
                     /\ r["DUE DATE"] \in {Txt(ToString(D.d)), Txt(ToString(D.d) \o ".0")}
                     /\ SameDay(r["NEXT DUE DATE"], DateOffset_months_1(D))
                     /\ SameDay(r["OLDEST DUE DATE"], D)

----------------------------------------------------------------------------
(* The refresh of yesterday's active list *)

\* The two tables the refresh works on: the loaded tables, their numeric columns cleaned
YesterdayCleaned ==
    clean_numeric(normalize_columns(session_state["yesterday_df"]), numeric_cols)
TodayCleaned ==
    clean_numeric(normalize_columns(session_state["today_df"]), numeric_cols)

\* The refreshed list of the run
Refreshed == refresh(YesterdayCleaned, TodayCleaned)

\* The record a run emits for a key of yesterday's list: in the final active list or
\* among the pulled out accounts
EmittedRows(lan) ==
    RowsOf(session_state["final_active_list"], lan)
        \o RowsOf(session_state["pullout_accounts"], lan)

\* C20: the refresh keeps the records of yesterday's list, one refreshed record per
\* record in the same order; every field that is no refreshed field keeps yesterday's
\* value (a standard header yesterday's list has not is added empty); every refreshed
\* field today's transactions have takes today's value for the key; and the record
\* the run emits for the key carries the refreshed fields of the refreshed record and
\* the standard fields of yesterday's record.
C20_RefreshFrame ==
    DailyProcessed =>
        LET Y == session_state["yesterday_df"]
            T == TodayCleaned
            R == Refreshed
            taken == columns_to_update \cap T.columns
        IN /\ Len(R.rows) = Len(Y.rows)
           /\ \A i \in 1..Len(Y.rows) :
                 /\ R.rows[i]["LAN"] = Y.rows[i]["LAN"]
                 /\ \A c \in Y.columns \ columns_to_update :
                       R.rows[i][c] = Y.rows[i][c]
                 /\ \A c \in R.columns \ (Y.columns \cup columns_to_update) :
                       R.rows[i][c] = NA
                 /\ Y.rows[i]["LAN"] \in LANs(T) =>
                       \A c \in taken : R.rows[i][c] = RowOf(T, Y.rows[i]["LAN"])[c]
                 /\ Len(EmittedRows(Y.rows[i]["LAN"])) = 1
                 /\ \A c \in daily_STANDARD_HEADERS \cap (Y.columns \cup columns_to_update) :
                       EmittedRows(Y.rows[i]["LAN"])[1][c] = R.rows[i][c]

\* A processed run in which a record of yesterday's list takes today's PAST DUE and DPD
\* and keeps its classification and its endorsement date
C20_Witness ==
    /\ DailyProcessed
    /\ \E i \in 1..Len(session_state["yesterday_df"].rows) :
          LET y == session_state["yesterday_df"].rows[i]
              r == Refreshed.rows[i]
          IN /\ y["LAN"] \in LANs(TodayCleaned)
             /\ y["PAST DUE"] = Num(500, FALSE)
             /\ r["PAST DUE"] = Num(300, TRUE)
             /\ "DPD" \in DOMAIN y /\ y["DPD"] = Num(30, FALSE)
             /\ "DPD" \in TodayCleaned.columns /\ r["DPD"] = Num(45, FALSE)
             /\ r["CLASSIFICATION"] = y["CLASSIFICATION"]
             /\ r["ENDO DATE"] = y["ENDO DATE"]

----------------------------------------------------------------------------
(* One session over the pages of the app: the session state is shared by the pages,
   the uploaders of a page are empty again when the user comes back to it *)

\* The pages of the session (the weekly page is behind its login and is left out)
SessionPages == {"monthly", "daily", "alignment"}

\* One run of a page's script with no button pressed
page_script(p, ss, up, run_date) ==
    CASE p = "daily" -> daily_script(ss, up, FALSE, run_date)
      [] p = "monthly" -> [ss |-> monthly_load(ss, up),
                           screen |-> MonthlyScreen("idle", NoTable, NoTable)]
      [] p = "alignment" -> alignment_script(ss, up, run_date)

\* The uploaders of a page the session uses
SessionUploaders(p) ==
    CASE p = "daily" -> {"yesterday", "today_tad", "masterlist"}
      [] p = "monthly" -> {"masterlist"}
      [] p = "alignment" -> {"for_upload_uploader"}

\* The masterlist a user uploads on the monthly page: any file name, two records of
\* one account
MonthlyMasterlist ==
    File("masterlist october.xlsx",
         DataFrame(DailyMasterColumns,
                   <<MRow(<<"C">>, Date(2023, 10, 2), Num(45322, FALSE)),
                     MRow(<<"C">>, Date(2023, 11, 6), Num(45322, FALSE))>>))

\* The files a user uploads in the session
SessionFiles(p, key) ==
    CASE p = "monthly" -> {MonthlyMasterlist}
      [] p = "alignment" -> {File("FOR UPLOAD 110326.xlsx", AlignTable(<<"LAN", "NAME">>, 1))}
      [] p = "daily" /\ key = "yesterday" ->
             {File("ACTIVE FILES 110226.xlsx",
                   DataFrame(YesterdayColumns, <<YRow(<<"A">>, 500)>>)),
              File("ACTIVE FILES 110226.xlsx",
                   DataFrame({"PAST DUE"}, <<[c \in {"PAST DUE"} |-> Num(500, FALSE)]>>)),
              File("ACTIVE WORKLIST 110226.xlsx",
                   DataFrame(YesterdayColumns, <<YRow(<<"B">>, 500)>>))}
      [] p = "daily" /\ key = "today_tad" ->
             {File("TAD_SPM M1_11.03.2026.xlsx",
                   DataFrame(TodayColumns,
                             <<TRow(<<"C">>, Num(300, FALSE), Date(2024, 1, 31))>>)),
              File("TAD 11.03.2026.xlsx",
                   DataFrame(TodayColumns, <<TRow(<<"B">>, Num(300, FALSE), NA)>>))}
      [] p = "daily" /\ key = "masterlist" ->
             {File("MASTERLIST 11032026.xlsx",
                   DataFrame(DailyMasterColumns,
                             <<MRow(<<"C">>, Date(2024, 1, 15), Num(45351, FALSE))>>)),
              File("MASTERLIST.xlsx",
                   DataFrame(DailyMasterColumns,
                             <<MRow(<<"B">>, Date(2024, 1, 15), Num(45322, FALSE))>>))}

\* The user opens another page: its script runs on the session, its uploaders empty
SessionNavigate ==
    /\ \E p \in SessionPages \ {page} :
       \E run \in {page_script(p, session_state, NoUploads, today)} :
          /\ page' = p
          /\ uploaded' = NoUploads
          /\ session_state' = run.ss
          /\ screen' = run.screen
    /\ UNCHANGED today

\* The user puts a file in an uploader of the page, empty or not; the script runs
SessionUpload ==
    /\ page \in SessionPages
    /\ \E key \in SessionUploaders(page) :
       \E f \in SessionFiles(page, key) :
       \E run \in {page_script(page, session_state, Put(uploaded, key, f), today)} :
          /\ key \in DOMAIN uploaded => f # uploaded[key]
          /\ uploaded' = Put(uploaded, key, f)
          /\ session_state' = run.ss
          /\ screen' = run.screen
    /\ UNCHANGED <<page, today>>

InitSession ==
    /\ page = "daily"
    /\ uploaded = NoUploads
    /\ session_state = EmptySession
    /\ today = Date(2026, 11, 3)
    /\ screen = BlankScreen

NextSession == SessionNavigate \/ SessionUpload \/ DailyProcessButton

SpecSession == InitSession /\ [][NextSession]_vars

----------------------------------------------------------------------------
(* C21 *)

\* The tables the daily page loads from the files whose name passes the check of the role
GatedTables(key, expected_type) ==
    {load_keyed(normalize_columns(f.df)) :
        f \in {g \in SessionFiles("daily", key) : validate_filename(g.name, expected_type)}}

\* C21: every table a completed daily run consumed (yesterday's active list, today's
\* transactions, the masterlist of the session) is the table of a file whose name
\* matched the pattern of its role.
C21_FilenameGate ==
    DailyProcessed =>
        /\ session_state["yesterday_df"] \in GatedTables("yesterday", "active")
        /\ session_state["today_df"] \in GatedTables("today_tad", "tad")
        /\ "masterlist_df" \in DOMAIN session_state =>
              session_state["masterlist_df"] \in GatedTables("masterlist", "master")

\* The part of C21 that stays on the daily page: a file whose name does not match is
\* not loaded
C21_RejectedFileIsNotLoaded ==
    (page = "daily" /\ screen.page = "daily") =>
        /\ \A key \in DOMAIN uploaded :
              LET role == CASE key = "yesterday" -> <<"active", "yesterday_df">>
                            [] key = "today_tad" -> <<"tad", "today_df">>
                            [] key = "masterlist" -> <<"master", "masterlist_df">>
              IN ~validate_filename(uploaded[key].name, role[1]) =>
                    \/ role[2] \notin DOMAIN session_state
                    \/ session_state[role[2]] # load_keyed(normalize_columns(uploaded[key].df))

----------------------------------------------------------------------------
(* The tabular readers (src/src/utils.py read_excel_file and the read_file of the pages) *)

\* No password given (None or ""), the password of the pages, and another one
NoPassword == "no password"
DEFAULT_PASSWORD == "BPI_SPM2025"
Passwords == {NoPassword, DEFAULT_PASSWORD, "another"}

\* An uploaded source: the extension of its name, what its bytes are ("plain", a
\* workbook "encrypted" with a password, or "corrupt"), and the table it holds
Source(ext, form, password, df) == [ext |-> ext, form |-> form, password |-> password, df |-> df]

\* The outcome of a read: the table or None, whether st.error reported, and the reads
\* attempted in order
ReadResult(df, error, attempts) == [df |-> df, error |-> error, attempts |-> attempts]

\* OfficeFile(f).load_key(password).decrypt() followed by pd.read_excel of the decrypted
\* bytes succeeds on a workbook encrypted with that password, and raises otherwise
decrypt_ok(src, password) == src.form = "encrypted" /\ src.password = password

\* pd.read_excel / pd.read_csv of the uploaded bytes succeeds on a plain source
plain_ok(src) == src.form = "plain"

\* try decrypt, except: seek(0) and read the upload itself; the outer except reports
decrypt_then_plain(src, password) ==
    IF decrypt_ok(src, password) THEN ReadResult(src.df, FALSE, <<"decrypt">>)
    ELSE IF plain_ok(src) THEN ReadResult(src.df, FALSE, <<"decrypt", "plain">>)
    ELSE ReadResult(None, TRUE, <<"decrypt", "plain">>)

\* The csv branch and the unsupported-format branch all the readers share
read_other(src) ==
    IF src.ext = "csv"
    THEN (IF plain_ok(src) THEN ReadResult(src.df, FALSE, <<"plain">>)
          ELSE ReadResult(None, TRUE, <<"plain">>))
    ELSE ReadResult(None, TRUE, <<>>)              \* st.error("Unsupported file format.")

\* read_file of the daily and of the weekly page: password or DEFAULT_PASSWORD
read_file(src, password) ==
    IF src.ext \in {"xls", "xlsx"}
    THEN decrypt_then_plain(src, IF password = NoPassword THEN DEFAULT_PASSWORD
                                 ELSE password)
    ELSE read_other(src)

\* read_excel_file of utils.py: the password as it is given
read_excel_file(src, password) ==
    IF src.ext \in {"xls", "xlsx"} THEN decrypt_then_plain(src, password)
    ELSE read_other(src)

\* read_file of the New Endorsement page: with a password it only decrypts, without
\* one it only reads the upload
monthly_read_file(src, password) ==
    IF src.ext \in {"xls", "xlsx"}
    THEN IF password # NoPassword
         THEN (IF decrypt_ok(src, password) THEN ReadResult(src.df, FALSE, <<"decrypt">>)
               ELSE ReadResult(None, TRUE, <<"decrypt">>))
         ELSE (IF plain_ok(src) THEN ReadResult(src.df, FALSE, <<"plain">>)
               ELSE ReadResult(None, TRUE, <<"plain">>))
    ELSE read_other(src)

Readers == {"utils.read_excel_file", "daily.read_file", "weekly.read_file", "monthly.read_file"}

\* The read of a source by one of the readers
read_with(reader, src, password) ==
    CASE reader = "utils.read_excel_file" -> read_excel_file(src, password)
      [] reader = "monthly.read_file" -> monthly_read_file(src, password)
      [] OTHER -> read_file(src, password)

\* The passwords a reader is called with: DEFAULT_PASSWORD on the New Endorsement page,
\* DEFAULT_PASSWORD or none on the daily and weekly pages, any for the utility
ReaderPasswords(reader) ==
    CASE reader = "monthly.read_file" -> {DEFAULT_PASSWORD}
      [] reader = "utils.read_excel_file" -> Passwords
      [] OTHER -> {NoPassword, DEFAULT_PASSWORD}

\* The sources a user uploads
Sources ==
    {Source(ext, form, pw, df) :
        ext \in {"csv", "xlsx", "xls", "txt"},
        form \in {"plain", "encrypted", "corrupt"},
        pw \in {DEFAULT_PASSWORD, "another"},
        df \in {DataFrame({"LAN"}, <<>>), DataFrame({"LAN"}, <<("LAN" :> Key(<<"A">>))>>)}}

\* A reader reads the uploaded source
ReadSource ==
    /\ page = "reader"
    /\ \E reader \in Readers :
       \E password \in ReaderPasswords(reader) :
          screen' = [page |-> "reader", reader |-> reader, password |-> password,
                     result |-> read_with(reader, uploaded["source"], password)]
    /\ UNCHANGED <<page, uploaded, session_state, today>>

InitReaders ==
    /\ page = "reader"
    /\ uploaded \in {("source" :> src) : src \in Sources}
    /\ session_state = EmptySession
    /\ today = Date(2026, 11, 3)
    /\ screen = BlankScreen

NextReaders == ReadSource

SpecReaders == InitReaders /\ [][NextReaders]_vars

----------------------------------------------------------------------------
(* C22 *)

\* The password a reader decrypts with when it is called with a password
UsedPassword == IF screen.reader \in {"daily.read_file", "weekly.read_file"}
                   /\ screen.password = NoPassword
                THEN DEFAULT_PASSWORD ELSE screen.password

\* C22: every reader, on a spreadsheet source, first attempts the decryption and, when
\* it fails, reads the same source as plaintext; it returns no table and reports an
\* error only when the plaintext read fails too; on an unsupported extension it
\* reports an error and returns no table.
C22_TryThenFallback ==
    (page = "reader" /\ screen.page = "reader") =>
        LET src == uploaded["source"]
            r == screen.result
        IN /\ src.ext \in {"xls", "xlsx"} =>
                 /\ Head(r.attempts) = "decrypt"
                 /\ ~decrypt_ok(src, UsedPassword) => r.attempts = <<"decrypt", "plain">>
                 /\ r.df = None <=> (~decrypt_ok(src, UsedPassword) /\ ~plain_ok(src))
                 /\ r.df # None => r.df = src.df /\ ~r.error
                 /\ r.df = None => r.error
           /\ src.ext \notin {"xls", "xlsx", "csv"} =>
                 r = ReadResult(None, TRUE, <<>>)

\* The same for the readers of the daily page, of the weekly page and of utils.py
C22_ReadersWithFallback ==
    (page = "reader" /\ screen.page = "reader" /\ screen.reader # "monthly.read_file")
        => C22_TryThenFallback

----------------------------------------------------------------------------
(* Per-file errors of the header alignment *)

\* The file of a session key fails in its try block
FailsToAlign(key) ==
    session_state[key] # None /\ align_headers(session_state[key].df).raised

\* The file of a session key is aligned by its try block
Aligns(key) ==
    session_state[key] # None /\ ~align_headers(session_state[key].df).raised

\* The aligned table of the file is offered under the name of its type
Offered(t) ==
    /\ t \in DOMAIN screen.offered
    /\ screen.offered[t].df
          = format_date_referred(align_headers(session_state[AlignKeyOf(t)].df).df)

\* C23: in the header alignment tool every file that can be aligned is aligned and
\* offered, whether the other file failed or not, and a failure is reported (FOR UPLOAD
\* failing does not keep FOR UPDATE from being offered, and the reverse).
C23_PerFileErrors ==
    (page = "alignment" /\ screen.page = "alignment") =>
        /\ \A t \in {"FOR_UPLOAD", "FOR_UPDATE"} : Aligns(AlignKeyOf(t)) => Offered(t)
        /\ \A t \in {"FOR_UPLOAD", "FOR_UPDATE"} :
              FailsToAlign(AlignKeyOf(t)) =>
                 screen.status \in {"error_one_file", "warning_none_processed"}

\* FOR UPLOAD fails and FOR UPDATE is offered
C23_Witness ==
    /\ page = "alignment" /\ screen.page = "alignment"
    /\ FailsToAlign("uploaded_for_upload")
    /\ Aligns("uploaded_for_update")
    /\ Offered("FOR_UPDATE")
    /\ screen.status = "error_one_file"

\* FOR UPDATE fails and FOR UPLOAD is offered
C23_WitnessReverse ==
    /\ page = "alignment" /\ screen.page = "alignment"
    /\ FailsToAlign("uploaded_for_update")
    /\ Aligns("uploaded_for_upload")
    /\ Offered("FOR_UPLOAD")
    /\ screen.status = "error_one_file"

----------------------------------------------------------------------------
(* The masterlist of the daily page *)

\* Yesterday's active list and today's transactions are loaded and no file is in the
\* masterlist uploader
LoadedWithoutMasterlist ==
    /\ page = "daily"
    /\ {"yesterday_df", "today_df"} \subseteq DOMAIN session_state
    /\ "masterlist" \notin DOMAIN uploaded

\* C24: once yesterday's active list and today's transactions are loaded, a
\* reconciliation run can be started although no masterlist was supplied: the
\* "Process Daily Updates" button can be pressed.
C24_MasterlistOptional ==
    LoadedWithoutMasterlist => ENABLED DailyProcessButton

\* Every run of the daily page was started with a file in the masterlist uploader
C24_RunsNeedMasterlistFile ==
    [][DailyProcessButton => "masterlist" \in DOMAIN uploaded]_vars

\* A run completes without masterlist data when the file in the masterlist uploader
\* was rejected for its name
C24_RunWithRejectedMasterlist ==
    /\ DailyProcessed
    /\ "masterlist_df" \notin DOMAIN session_state
    /\ ReviveKeys # {}

----------------------------------------------------------------------------
(* Synonym resolution order of the header alignment *)

\* The place of a column name in the synonym list of a canonical field
SynonymIndex(field, name) ==
    CHOOSE i \in 1..Len(mapping_get(field)) :
        upper_name(mapping_get(field)[i]) = upper_name(name)

\* Among the input columns that are synonyms of the field, the one whose synonym is
\* listed last
LastSynonymPosition(df, field) ==
    CHOOSE j \in SynonymPositions(df, field) :
        \A h \in SynonymPositions(df, field) :
            SynonymIndex(field, df.columns[h]) <= SynonymIndex(field, df.columns[j])

\* C25: when several input columns are synonyms of one canonical field, the aligned
\* column of the field holds the values of the input column whose synonym is listed
\* last in the field's synonym list, whatever the order of the input columns.
C25_LastSynonymWins ==
    \A t \in DOMAIN ProcessedFiles :
        LET input == session_state[AlignKeyOf(t)].df
            output == ProcessedFiles[t].df
        IN \A i \in 1..Len(CanonicalFields) :
              \A p \in PositionsOf(output, CanonicalFields[i]) :
                 Cardinality(SynonymPositions(input, CanonicalFields[i])) > 1 =>
                    ColumnAt(output, p)
                       = ColumnAt(input, LastSynonymPosition(input, CanonicalFields[i]))

\* What the code does: the aligned column holds the values of the first input column,
\* in the order of the input columns, that is a synonym of the field
C25_FirstInputColumnWins ==
    \A t \in DOMAIN ProcessedFiles :
        LET input == session_state[AlignKeyOf(t)].df
            output == ProcessedFiles[t].df
        IN \A i \in 1..Len(CanonicalFields) :
              \A p \in PositionsOf(output, CanonicalFields[i]) :
                 Cardinality(SynonymPositions(input, CanonicalFields[i])) > 1 =>
                    ColumnAt(output, p)
                       = ColumnAt(input,
                                  CHOOSE j \in SynonymPositions(input, CanonicalFields[i]) :
                                      \A h \in SynonymPositions(input, CanonicalFields[i]) :
                                          j <= h)

----------------------------------------------------------------------------
(* Accounts of yesterday's list that today's transactions do not hold *)

\* The keys of yesterday's list with no record in today's transactions
GoneKeys == YesterdayKeys \ TodayKeys

\* C26: after a processed daily run every account of yesterday's active list that has
\* no record in today's transactions is among the pulled out accounts with past due
\* zero, and neither in the final active list nor among the accounts for update,
\* whatever its past due was yesterday.
C26_GoneAccountsArePulledOut ==
    DailyProcessed =>
        \A k \in GoneKeys :
            /\ k \in PulloutKeys
            /\ RowOf(session_state["pullout_accounts"], k)["PAST DUE"].v = 0
            /\ k \notin FinalKeys
            /\ k \notin ForUpdateKeys

\* An account with past due 500 yesterday and no record today is pulled out, next to
\* an account that stays active
C26_Witness ==
    /\ DailyProcessed
    /\ \E k \in GoneKeys :
          /\ RowOf(session_state["yesterday_df"], k)["PAST DUE"] = Num(500, FALSE)
          /\ k \in PulloutKeys
    /\ FinalKeys \cap YesterdayKeys # {}

----------------------------------------------------------------------------
(* Keys of the final active list *)

\* C27: after a completed daily run the final active list holds at most one record
\* per account key.
C27_OneRecordPerKey ==
    DailyProcessed =>
        LET rows == session_state["final_active_list"].rows
        IN \A i, j \in 1..Len(rows) : rows[i]["LAN"] = rows[j]["LAN"] => i = j

\* The same when the masterlist of the session was loaded by the daily page
C27_OneRecordPerKeyDailyMasterlist ==
    (DailyProcessed /\ "masterlist_df" \in DOMAIN session_state
        /\ session_state["masterlist_df"] \in GatedTables("masterlist", "master"))
    => C27_OneRecordPerKey

----------------------------------------------------------------------------
(* The results the daily page shows *)

\* The daily page is at its results section with processing_complete true
DailyShowsResults ==
    /\ page = "daily" /\ screen.page = "daily"
    /\ "processing_complete" \in DOMAIN session_state
    /\ session_state["processing_complete"]

\* The stored results agree with each other as the results of one run do
OneRunWroteResults ==
    /\ session_state["metrics"].pullout_count = Len(session_state["pullout_accounts"].rows)
    /\ session_state["metrics"].forupdate_count
          = Len(session_state["for_update_accounts"].rows)
    /\ session_state["metrics"].revive_count = Len(session_state["revive_display"].rows)
    /\ ForUpdateKeys \subseteq FinalKeys
    /\ ForUploadKeys \subseteq FinalKeys
    /\ FinalKeys \cap PulloutKeys = {}

\* C28: whenever the daily page is at its results section with processing_complete
\* true, the session holds metrics and the five partitions, and they are the results
\* of one completed daily run.
C28_ResultsAreOneRun ==
    DailyShowsResults =>
        /\ ResultKeys \subseteq DOMAIN session_state
        /\ OneRunWroteResults

----------------------------------------------------------------------------
(* The end of a merge on the New Endorsement page *)

\* The endorsement table and the aligned transaction table are loaded
BothTablesLoaded == {"endorsement_df", "aligned_tad"} \subseteq DOMAIN session_state

\* The merge button was pressed and the run reached the end of the due-date derivation
MonthlyMergeRan ==
    page = "monthly" /\ screen.page = "monthly" /\ screen.status \notin {"idle", "exception"}

\* C29: a merge with both tables loaded whose due-date derivation succeeds ends with
\* the final merged table, in template column order, offered for download; the
\* "please upload and align both files" warning is shown only when one of the two
\* tables is missing.
C29_MergeEndsWithFinalTable ==
    MonthlyMergeRan =>
        /\ BothTablesLoaded =>
              /\ screen.status = "merged"
              /\ screen.final_df.columns = TEMPLATE_HEADERS
        /\ screen.status = "warning_upload_both" => ~BothTablesLoaded

\* What the code does: every merge with both tables loaded that gets through the
\* derivation ends with the warning and without a final table
C29_MergeEndsWithWarning ==
    (MonthlyMergeRan /\ BothTablesLoaded) =>
        /\ screen.status = "warning_upload_both"
        /\ screen.final_df = NoTable

----------------------------------------------------------------------------
(* Re-running the weekly flow on the same date: the consolidated masterlist *)
(* a run offers is downloaded and replaces the masterlist file, while the   *)
(* transaction and endorsement files stay in their uploaders.               *)

\* The largest consolidated masterlist a re-run is started from
MaxRerunRows == 4

\* After a completed run the user puts the consolidated masterlist of that run in
\* the masterlist uploader; the script reruns on the same date with the same files
WeeklyRerunSameDate ==
    /\ page = "weekly"
    /\ screen.page = "weekly" /\ screen.status = "complete"
    /\ Len(screen.consolidated_masterlist.rows) <= MaxRerunRows
    /\ uploaded' = Put(uploaded, "masterlist",
                       File("Masterlist.xlsx",
                            excel_round_trip(screen.consolidated_masterlist)))
    /\ session_state' = weekly_load(session_state, uploaded')
    /\ screen' = weekly_script(session_state', today)
    /\ UNCHANGED <<page, today>>

NextWeeklyRerun == WeeklyRunUpload \/ WeeklyNextRun \/ WeeklyRerunSameDate

SpecWeeklyRerun == InitWeeklyRuns /\ [][NextWeeklyRerun]_vars

\* C30: re-running the weekly flow on the same run date with the same transaction
\* and endorsement tables, with the consolidated masterlist of the first completed
\* run as the masterlist, also completes and emits its outputs: it does not halt
\* on the REENDO validation.
C30_RerunCompletes ==
    [][WeeklyRerunSameDate =>
          /\ screen'.status = "complete"
          /\ screen'.final_active # NoTable
          /\ screen'.consolidated_masterlist # NoTable]_vars

\* What the code does: a re-run after a run that classified a record NEW ENDO halts,
\* since the record is now in the masterlist with the run date as its date_referred
C30_RerunHaltsAfterNewEndo ==
    [][(WeeklyRerunSameDate /\ screen.for_upload.rows # <<>>) =>
          screen'.status = "halted"]_vars

\* A re-run after a run that classified a record NEW ENDO has happened
C30_RerunAfterNewEndo ==
    /\ screen.page = "weekly" /\ screen.status = "halted"
    /\ "masterlist" \in DOMAIN uploaded /\ uploaded["masterlist"].name = "Masterlist.xlsx"
    /\ {"tad", "endorsement"} \subseteq DOMAIN uploaded
    /\ today = FirstRunDate

====
